---------------------------- MODULE Spec2Model ----------------------------
(***************************************************************************)
(* A model of TrendRadar's topic matcher (docker/frequency_helper.py), its *)
(* word-group parsers (frequency_helper.py and mcp_server ParserService),  *)
(* the aggregation pass and the cache/refresh controller of the JSON API   *)
(* server (docker/api_server.py).                                          *)
(*                                                                         *)
(* Text is modelled as a sequence of one-character strings, so that        *)
(* substring search, prefix tests, splitting and case folding are computed *)
(* as the Python code computes them.                                       *)
(***************************************************************************)
EXTENDS Integers, Sequences, FiniteSets, TLC

(***************************************************************************)
(* Text primitives (Python str methods used by the sources).               *)
(***************************************************************************)
LowerLetters ==
    <<"a","b","c","d","e","f","g","h","i","j","k","l","m",
      "n","o","p","q","r","s","t","u","v","w","x","y","z">>

UpperLetters ==
    <<"A","B","C","D","E","F","G","H","I","J","K","L","M",
      "N","O","P","Q","R","S","T","U","V","W","X","Y","Z">>

Range(s) == { s[i] : i \in DOMAIN s }

\* str.lower() on one character (ASCII letters).
LowerChar(c) ==
    IF \E i \in DOMAIN UpperLetters : UpperLetters[i] = c
    THEN LowerLetters[CHOOSE i \in DOMAIN UpperLetters : UpperLetters[i] = c]
    ELSE c

\* str.upper() on one character (ASCII letters).
UpperChar(c) ==
    IF \E i \in DOMAIN LowerLetters : LowerLetters[i] = c
    THEN UpperLetters[CHOOSE i \in DOMAIN LowerLetters : LowerLetters[i] = c]
    ELSE c

Lower(s) == [i \in DOMAIN s |-> LowerChar(s[i])]

Upper(s) == [i \in DOMAIN s |-> UpperChar(s[i])]

\* Python `w in t` for strings: w occurs in t as a contiguous run; the empty
\* string occurs in every string.
IsSubstr(w, t) ==
    \E i \in 0..(Len(t) - Len(w)) : SubSeq(t, i + 1, i + Len(w)) = w

StartsWith(s, p) == Len(s) >= Len(p) /\ SubSeq(s, 1, Len(p)) = p

EndsWith(s, p) == Len(s) >= Len(p) /\ SubSeq(s, Len(s) - Len(p) + 1, Len(s)) = p

\* s[n:] of Python.
DropFirst(s, n) == SubSeq(s, n + 1, Len(s))

\* The characters str.strip() removes and the regex class \s matches.
IsSpace(c) == c \in {" ", "\t", "\n", "\r"}

RECURSIVE LStrip(_)
LStrip(s) == IF s # <<>> /\ IsSpace(Head(s)) THEN LStrip(Tail(s)) ELSE s

RECURSIVE RStrip(_)
RStrip(s) ==
    IF s # <<>> /\ IsSpace(s[Len(s)]) THEN RStrip(SubSeq(s, 1, Len(s) - 1)) ELSE s

\* str.strip()
Strip(s) == RStrip(LStrip(s))

\* str.find(p): the 0-based offset of the first occurrence of p in s, -1 if none.
Find(s, p) ==
    IF IsSubstr(p, s)
    THEN CHOOSE i \in 0..(Len(s) - Len(p)) :
            /\ SubSeq(s, i + 1, i + Len(p)) = p
            /\ \A j \in 0..(i - 1) : SubSeq(s, j + 1, j + Len(p)) # p
    ELSE -1

\* str.split(sep): the pieces between the occurrences of the non-empty text
\* sep, empty pieces kept.
RECURSIVE Split(_, _)
Split(s, sep) ==
    IF Find(s, sep) = -1
    THEN <<s>>
    ELSE <<SubSeq(s, 1, Find(s, sep))>>
            \o Split(DropFirst(s, Find(s, sep) + Len(sep)), sep)

\* str.split(sep, 1): at most one split, at the first occurrence.
SplitOnce(s, sep) ==
    IF Find(s, sep) = -1
    THEN <<s>>
    ELSE <<SubSeq(s, 1, Find(s, sep)), DropFirst(s, Find(s, sep) + Len(sep))>>

\* [strip(x) for x in parts if strip(x)]
RECURSIVE StripNonEmpty(_)
StripNonEmpty(parts) ==
    IF parts = <<>>
    THEN <<>>
    ELSE (IF Strip(Head(parts)) # <<>> THEN <<Strip(Head(parts))>> ELSE <<>>)
            \o StripNonEmpty(Tail(parts))

\* The concatenation of a sequence of sequences.
RECURSIVE Flatten(_)
Flatten(ss) == IF ss = <<>> THEN <<>> ELSE Head(ss) \o Flatten(Tail(ss))

(***************************************************************************)
(* Term model.  A parsed term is the dict of _parse_word_fallback:         *)
(*   word          the literal, or the pattern text of a regex term        *)
(*   is_regex      TRUE when the term was compiled as a regex              *)
(*   display_name  the alias after "=>"; None is the empty sequence (every *)
(*                 use in the code is a truthiness test: `x or word`)      *)
(* The compiled `pattern` is a function of `word`, so it is not a field.   *)
(* Regex patterns are those built from literal characters and ".".         *)
(***************************************************************************)
NoDisplay == <<>>

Term(w, rx, d) == [word |-> w, is_regex |-> rx, display_name |-> d]

\* pattern.search(title_lower) for a pattern compiled with re.IGNORECASE.
RegexSearch(p, tl) ==
    \E i \in 0..(Len(tl) - Len(p)) :
        \A k \in 1..Len(p) : p[k] = "." \/ LowerChar(p[k]) = LowerChar(tl[i + k])

\* _word_matches_fallback for a dict word_config.
WordMatches(word_config, title_lower) ==
    IF word_config.is_regex
    THEN RegexSearch(word_config.word, title_lower)
    ELSE IsSubstr(Lower(word_config.word), title_lower)

\* `w.get("display_name") or w["word"]`
Display(w) == IF w.display_name # NoDisplay THEN w.display_name ELSE w.word

(***************************************************************************)
(* Classifier: find_matched_topics.                                        *)
(* A word group is the dict built by load_frequency_words_extended:        *)
(*   required, normal, filter : sequences of terms;  group_key : text.     *)
(* A match result is [topic |-> group_key, matched |-> display strings].   *)
(***************************************************************************)
\* `if x not in acc: acc.append(x)`
AppendUnique(acc, x) == IF x \in Range(acc) THEN acc ELSE Append(acc, x)

\* `if x not in acc: acc.insert(0, x)`
InsertFrontUnique(acc, x) == IF x \in Range(acc) THEN acc ELSE <<x>> \o acc

\* The loop over normal_words: the display strings of the normal terms that
\* match, in source order, without repeats.
RECURSIVE CollectNormal(_, _, _)
CollectNormal(normal_words, title_lower, acc) ==
    IF normal_words = <<>>
    THEN acc
    ELSE CollectNormal(Tail(normal_words), title_lower,
                       IF WordMatches(Head(normal_words), title_lower)
                       THEN AppendUnique(acc, Display(Head(normal_words)))
                       ELSE acc)

\* The loop over required_words: each display string not yet listed is put
\* at the front.
RECURSIVE AddRequired(_, _)
AddRequired(required_words, acc) ==
    IF required_words = <<>>
    THEN acc
    ELSE AddRequired(Tail(required_words),
                     InsertFrontUnique(acc, Display(Head(required_words))))

\* matched_words[:n]
Truncate(s, n) == SubSeq(s, 1, IF Len(s) < n THEN Len(s) ELSE n)

\* AllRequiredMatch with `any` written for `all`.
AnyRequiredMatch(required_words, title_lower) ==
    \E i \in DOMAIN required_words : WordMatches(required_words[i], title_lower)

\* `all(word_matches(rw, title_lower) for rw in required_words)`
AllRequiredMatch(required_words, title_lower) ==
    \A i \in DOMAIN required_words : WordMatches(required_words[i], title_lower)

\* The number of matched display strings a MatchResult keeps.
MaxMatched == 3

\* One pass of the `for group in word_groups` body: <<>> when the group is
\* skipped (`continue`), else the one result appended to matched_topics.
GroupResult(group, title_lower) ==
    LET matched_normal == CollectNormal(group.normal, title_lower, <<>>)
    IN  IF \E i \in DOMAIN group.filter : WordMatches(group.filter[i], title_lower)
        THEN <<>>
        ELSE IF group.required # <<>>
                /\ ~AllRequiredMatch(group.required, title_lower)
        THEN <<>>
        ELSE IF group.normal # <<>> /\ matched_normal = <<>>
        THEN <<>>
        ELSE <<[topic   |-> group.group_key,
                matched |-> Truncate(AddRequired(group.required, matched_normal),
                                     MaxMatched)]>>

RECURSIVE MatchGroups(_, _)
MatchGroups(word_groups, title_lower) ==
    IF word_groups = <<>>
    THEN <<>>
    ELSE GroupResult(Head(word_groups), title_lower)
            \o MatchGroups(Tail(word_groups), title_lower)

\* GlobalFilterHit with the literal compared without `.lower()`.
GlobalFilterHitCaseSensitive(global_filters, title_lower) ==
    \E i \in DOMAIN global_filters : IsSubstr(global_filters[i], title_lower)

\* The global filter veto: some literal, lower-cased, occurs in the title.
GlobalFilterHit(global_filters, title_lower) ==
    \E i \in DOMAIN global_filters : IsSubstr(Lower(global_filters[i]), title_lower)

\* The standalone filter-word veto.
FilterWordHit(filter_words, title_lower) ==
    \E i \in DOMAIN filter_words : WordMatches(filter_words[i], title_lower)

FindMatchedTopics(title, word_groups, filter_words, global_filters) ==
    IF title = <<>> \/ word_groups = <<>>
    THEN <<>>
    ELSE IF GlobalFilterHit(global_filters, Lower(title))
    THEN <<>>
    ELSE IF FilterWordHit(filter_words, Lower(title))
    THEN <<>>
    ELSE MatchGroups(word_groups, Lower(title))

(***************************************************************************)
(* Term parsing: _parse_word_fallback.                                     *)
(***************************************************************************)
RegexFlagChars == {"g", "i", "m", "s", "u", "x"}

\* The closing slashes a match of ^/(.+)/([gimsux]*)$ may use: 1-based
\* positions j with a non-empty pattern before and only flag letters after.
RegexCloses(word) ==
    { j \in 3..Len(word) :
        /\ word[j] = "/"
        /\ \A k \in (j + 1)..Len(word) : word[k] \in RegexFlagChars }

IsRegexSyntax(word) ==
    /\ word # <<>>
    /\ word[1] = "/"
    /\ RegexCloses(word) # {}

\* group(1): `.+` is greedy, so the last possible closing slash is taken.
RegexPatternStr(word) ==
    SubSeq(word, 2, (CHOOSE j \in RegexCloses(word) :
                        \A k \in RegexCloses(word) : k <= j) - 1)

\* re.compile succeeds.  Of the characters that can make a pattern invalid
\* the model has "(" only, and never a closing ")": a pattern holding "("
\* raises re.error, every other pattern of the model compiles.
RegexCompiles(pattern_str) == "(" \notin Range(pattern_str)

ParseWordFallback(raw) ==
    LET has_display == IsSubstr(<<"=", ">">>, raw)
        parts == SplitOnce(raw, <<"=", ">">>)
        word == IF has_display THEN Strip(parts[1]) ELSE raw
        display_name == IF has_display THEN Strip(parts[2]) ELSE NoDisplay
    IN  IF IsRegexSyntax(word) /\ RegexCompiles(RegexPatternStr(word))
        THEN Term(RegexPatternStr(word), TRUE, display_name)
        ELSE Term(word, FALSE, display_name)

(***************************************************************************)
(* Word-group parser of the API server: load_frequency_words_extended.     *)
(***************************************************************************)
\* The default category of a group without "@category" (the two-character
\* Chinese word for "other" in the source).
DefaultCategory == <<"o", "t", "h", "e", "r">>

SectionGlobalFilter == <<"G","L","O","B","A","L","_","F","I","L","T","E","R">>

SectionWordGroups == <<"W","O","R","D","_","G","R","O","U","P","S">>

Digits == <<"0", "1", "2", "3", "4", "5", "6", "7", "8", "9">>

IsDigit(c) == \E i \in DOMAIN Digits : Digits[i] = c

DigitValue(c) == (CHOOSE i \in DOMAIN Digits : Digits[i] = c) - 1

\* int(text) for a text of decimal digits; -1 stands for ValueError (a text
\* that is empty or holds another character).
RECURSIVE ParseIntAcc(_, _)
ParseIntAcc(text, acc) ==
    IF text = <<>>
    THEN acc
    ELSE ParseIntAcc(Tail(text), acc * Len(Digits) + DigitValue(Head(text)))

ParseInt(text) ==
    IF text # <<>> /\ \A i \in DOMAIN text : IsDigit(text[i])
    THEN ParseIntAcc(text, 0)
    ELSE -1

\* The per-block accumulators before the first line.
EmptyBlock ==
    [required |-> <<>>, normal |-> <<>>, filter |-> <<>>, max_count |-> 0,
     name |-> <<>>, category |-> DefaultCategory]

\* One pass of `for word in words` (lines 158-188).
HelperLine(b, word) ==
    IF StartsWith(word, <<"#">>)
    THEN LET name_part == Strip(DropFirst(word, 1))
             parts == SplitOnce(name_part, <<" ", "@">>)
         IN  IF IsSubstr(<<" ", "@">>, name_part)
             THEN [b EXCEPT !.name = Strip(parts[1]), !.category = Strip(parts[2])]
             ELSE [b EXCEPT !.name = name_part]
    ELSE IF StartsWith(word, <<"@">>)
    THEN IF ParseInt(Strip(DropFirst(word, 1))) > 0
         THEN [b EXCEPT !.max_count = ParseInt(Strip(DropFirst(word, 1)))]
         ELSE b
    ELSE IF StartsWith(word, <<"!">>)
    THEN [b EXCEPT !.filter = Append(@, ParseWordFallback(DropFirst(word, 1)))]
    ELSE IF StartsWith(word, <<"+">>)
    THEN [b EXCEPT !.required = Append(@, ParseWordFallback(DropFirst(word, 1)))]
    ELSE [b EXCEPT !.normal = Append(@, ParseWordFallback(word))]

RECURSIVE HelperLines(_, _)
HelperLines(b, words) ==
    IF words = <<>> THEN b ELSE HelperLines(HelperLine(b, Head(words)), Tail(words))

\* The first display_name among the terms, <<>> when none has one.
RECURSIVE FirstDisplayName(_)
FirstDisplayName(terms) ==
    IF terms = <<>>
    THEN NoDisplay
    ELSE IF Head(terms).display_name # NoDisplay
    THEN Head(terms).display_name
    ELSE FirstDisplayName(Tail(terms))

\* Lines 192-204.
HelperGroupKey(b) ==
    IF b.name # <<>>
    THEN b.name
    ELSE IF FirstDisplayName(b.normal \o b.required) # NoDisplay
    THEN FirstDisplayName(b.normal \o b.required)
    ELSE IF b.normal # <<>>
    THEN Display(b.normal[1])
    ELSE Display(b.required[1])

\* Lines 207-211.
RECURSIVE HelperKeywords(_, _)
HelperKeywords(terms, acc) ==
    IF terms = <<>>
    THEN acc
    ELSE HelperKeywords(Tail(terms), AppendUnique(acc, Display(Head(terms))))

\* Lines 190-221: <<>> when the block has neither required nor normal terms.
HelperGroup(b) ==
    IF b.required = <<>> /\ b.normal = <<>>
    THEN <<>>
    ELSE <<[required  |-> b.required,
            normal    |-> b.normal,
            filter    |-> b.filter,
            group_key |-> HelperGroupKey(b),
            max_count |-> b.max_count,
            category  |-> b.category,
            keywords  |-> HelperKeywords(b.normal \o b.required, <<>>)]>>

\* A first line "[...]" naming one of the two sections.
IsSectionHeader(line) ==
    /\ StartsWith(line, <<"[">>)
    /\ EndsWith(line, <<"]">>)
    /\ Upper(SubSeq(line, 2, Len(line) - 1)) \in {SectionGlobalFilter, SectionWordGroups}

\* Lines 141-145: the lines of a GLOBAL_FILTER block kept as literals.
IsDirectiveLine(line) ==
    \E c \in {"!", "+", "@", "#"} : StartsWith(line, <<c>>)

\* A GLOBAL_FILTER block that keeps its directive lines too.
GlobalFilterAllLines(lines) == lines

\* Lines 141-145, the loop: the lines appended to global_filters.
GlobalFilterLines(lines) == SelectSeq(lines, LAMBDA l : ~IsDirectiveLine(l))

\* One pass of `for group in word_groups` (lines 126-221) over the parse
\* state st = [groups, filter_words, global_filters, section].
HelperBlock(st, group) ==
    LET lines0 == StripNonEmpty(Split(group, <<"\n">>))
        header == lines0 # <<>> /\ IsSectionHeader(lines0[1])
        section == IF header
                   THEN Upper(SubSeq(lines0[1], 2, Len(lines0[1]) - 1))
                   ELSE st.section
        lines == IF header THEN Tail(lines0) ELSE lines0
        b == HelperLines(EmptyBlock, lines)
    IN  IF lines0 = <<>>
        THEN st
        ELSE IF section = SectionGlobalFilter
        THEN [st EXCEPT !.section = section,
                        !.global_filters = @ \o GlobalFilterLines(lines)]
        ELSE [st EXCEPT !.section = section,
                        !.groups = @ \o HelperGroup(b),
                        !.filter_words = @ \o b.filter]

RECURSIVE HelperBlocks(_, _)
HelperBlocks(st, blocks) ==
    IF blocks = <<>> THEN st ELSE HelperBlocks(HelperBlock(st, Head(blocks)), Tail(blocks))

\* load_frequency_words_extended on the text of the file:
\* [groups, filter_words, global_filters] (section is the parser's last state).
LoadFrequencyWordsExtended(content) ==
    HelperBlocks([groups |-> <<>>, filter_words |-> <<>>, global_filters |-> <<>>,
                  section |-> SectionWordGroups],
                 StripNonEmpty(Split(content, <<"\n", "\n">>)))

(***************************************************************************)
(* Word-group parser of the MCP server: ParserService.parse_frequency_words*)
(* and ParserService._parse_word_block.  Its terms are plain texts.        *)
(***************************************************************************)
\* The ends j of a match of \n\s*\n that starts at position i of s.
BlankRunEnds(s, i) ==
    { j \in (i + 1)..Len(s) :
        /\ s[j] = "\n"
        /\ \A k \in (i + 1)..(j - 1) : IsSpace(s[k]) }

BlankRunStarts(s) == { i \in DOMAIN s : s[i] = "\n" /\ BlankRunEnds(s, i) # {} }

\* re.split(r"\n\s*\n", s): leftmost match, \s* greedy.
RECURSIVE SplitBlankLines(_)
SplitBlankLines(s) ==
    IF BlankRunStarts(s) = {}
    THEN <<s>>
    ELSE LET i == CHOOSE a \in BlankRunStarts(s) : \A b \in BlankRunStarts(s) : a <= b
             j == CHOOSE a \in BlankRunEnds(s, i) : \A b \in BlankRunEnds(s, i) : b <= a
         IN  <<SubSeq(s, 1, i - 1)>> \o SplitBlankLines(DropFirst(s, j))

\* s[:-1] of Python.
DropLast(s) == SubSeq(s, 1, Len(s) - 1)

\* add_token (lines 460-477).
ServiceAddToken(b, raw) ==
    LET token == Strip(raw)
    IN  IF token = <<>>
        THEN b
        ELSE IF StartsWith(token, <<"+">>)
        THEN IF Strip(DropFirst(token, 1)) # <<>>
             THEN [b EXCEPT !.required = Append(@, Strip(DropFirst(token, 1)))]
             ELSE b
        ELSE IF StartsWith(token, <<"!">>)
        THEN IF Strip(DropFirst(token, 1)) # <<>>
             THEN [b EXCEPT !.filter = Append(@, Strip(DropFirst(token, 1)))]
             ELSE b
        ELSE IF EndsWith(token, <<"+">>)
        THEN IF Strip(DropLast(token)) # <<>>
             THEN [b EXCEPT !.required = Append(@, Strip(DropLast(token)))]
             ELSE b
        ELSE IF EndsWith(token, <<"!">>)
        THEN IF Strip(DropLast(token)) # <<>>
             THEN [b EXCEPT !.filter = Append(@, Strip(DropLast(token)))]
             ELSE b
        ELSE [b EXCEPT !.normal = Append(@, token)]

RECURSIVE ServiceAddTokens(_, _)
ServiceAddTokens(b, tokens) ==
    IF tokens = <<>>
    THEN b
    ELSE ServiceAddTokens(ServiceAddToken(b, Head(tokens)), Tail(tokens))

\* The tokens of a line holding "|" or ",": split on "|", each part on ",".
RECURSIVE SplitEachComma(_)
SplitEachComma(parts) ==
    IF parts = <<>>
    THEN <<>>
    ELSE Split(Head(parts), <<",">>) \o SplitEachComma(Tail(parts))

LineTokens(line) == SplitEachComma(Split(line, <<"|">>))

\* One pass of `for line in lines` (lines 479-499).
ServiceLine(b, line) ==
    IF StartsWith(line, <<"#">>)
    THEN LET name_part == Strip(DropFirst(line, 1))
             parts == SplitOnce(name_part, <<" ", "@">>)
         IN  IF IsSubstr(<<" ", "@">>, name_part)
             THEN [b EXCEPT !.name = Strip(parts[1]),
                            !.category = IF Strip(parts[2]) # <<>>
                                         THEN Strip(parts[2]) ELSE @]
             ELSE [b EXCEPT !.name = name_part]
    ELSE IF StartsWith(line, <<"@">>)
    THEN IF ParseInt(Strip(DropFirst(line, 1))) > 0
         THEN [b EXCEPT !.max_count = ParseInt(Strip(DropFirst(line, 1)))]
         ELSE b
    ELSE IF "|" \in Range(line) \/ "," \in Range(line)
    THEN ServiceAddTokens(b, LineTokens(line))
    ELSE ServiceAddToken(b, line)

RECURSIVE ServiceLines(_, _)
ServiceLines(b, lines) ==
    IF lines = <<>> THEN b ELSE ServiceLines(ServiceLine(b, Head(lines)), Tail(lines))

\* _parse_word_block: <<>> for None, else the one group dict.
ServiceParseWordBlock(lines) ==
    LET b == ServiceLines(EmptyBlock, lines)
    IN  IF b.required = <<>> /\ b.normal = <<>>
        THEN <<>>
        ELSE <<[required     |-> b.required,
                normal       |-> b.normal,
                filter_words |-> b.filter,
                group_key    |-> IF b.name # <<>> THEN b.name
                                 ELSE IF b.normal # <<>> THEN b.normal[1]
                                 ELSE b.required[1],
                max_count    |-> b.max_count,
                category     |-> b.category]>>

\* One pass of `for block in blocks` (lines 429-445) over [groups, section].
ServiceBlock(st, block) ==
    LET lines0 == StripNonEmpty(Split(block, <<"\n">>))
        header == lines0 # <<>> /\ IsSectionHeader(lines0[1])
        section == IF header
                   THEN Upper(SubSeq(lines0[1], 2, Len(lines0[1]) - 1))
                   ELSE st.section
        lines == IF header THEN Tail(lines0) ELSE lines0
    IN  IF lines0 = <<>>
        THEN st
        ELSE IF section = SectionGlobalFilter
        THEN [st EXCEPT !.section = section]
        ELSE [st EXCEPT !.section = section,
                        !.groups = @ \o ServiceParseWordBlock(lines)]

RECURSIVE ServiceBlocks(_, _)
ServiceBlocks(st, blocks) ==
    IF blocks = <<>> THEN st ELSE ServiceBlocks(ServiceBlock(st, Head(blocks)), Tail(blocks))

\* ParserService.parse_frequency_words on the text of an existing file.
ServiceParseFrequencyWords(content) ==
    ServiceBlocks([groups |-> <<>>, section |-> SectionWordGroups],
                  StripNonEmpty(SplitBlankLines(content))).groups

(***************************************************************************)
(* Aggregation: get_data_from_db.                                          *)
(*                                                                         *)
(* Platform and feed ids are strings; a source name is a sequence of       *)
(* strings, so that the name "[RSS] " + feed_name and a platform name are  *)
(* values of one kind.  A news row is [title, rank, platform_id,           *)
(* platform_name, last_crawl_time], an rss row [title, feed_id,            *)
(* published_at].  The item fields url, isNew, summary and author are      *)
(* copied through by the code and decide nothing; they are left out.       *)
(***************************************************************************)
\* The order of a source the registry does not list (lines 587, 670).
UnlistedOrder == 999

\* Added to the order of every RSS source (line 670).
RssOrderOffset == 1000

RssPrefix == <<"[RSS] ">>

\* `row['platform_name'] or platform_id` and `feed_names.get(feed_id, feed_id)`:
\* an id used as a name.
IdAsName(id) == <<id>>

\* The index of the last entry of a registry list with this id, 0 if none:
\* the dicts of lines 474-477 and 601-603 keep the last entry of an id.
LastIndexOf(entries, id) ==
    IF \E i \in DOMAIN entries : entries[i].id = id
    THEN CHOOSE i \in DOMAIN entries :
            /\ entries[i].id = id
            /\ \A j \in DOMAIN entries : entries[j].id = id => j <= i
    ELSE 0

\* platform_order.get(id, 999) / rss_order.get(id, 999): enumerate() is 0-based.
OrderOf(entries, id) ==
    IF LastIndexOf(entries, id) = 0 THEN UnlistedOrder ELSE LastIndexOf(entries, id) - 1

\* platform_enabled.get(id, True) / rss_enabled.get(id, True)
EnabledOf(entries, id) ==
    IF LastIndexOf(entries, id) = 0 THEN TRUE ELSE entries[LastIndexOf(entries, id)].enabled

\* platform_names.get(platform_id, row['platform_name'] or platform_id); a
\* NULL platform_name of the LEFT JOIN is the empty sequence.
PlatformNameOf(platforms, row) ==
    IF LastIndexOf(platforms, row.platform_id) # 0
    THEN platforms[LastIndexOf(platforms, row.platform_id)].name
    ELSE IF row.platform_name # <<>> THEN row.platform_name
    ELSE IdAsName(row.platform_id)

\* f"[RSS] {feed_names.get(feed_id, feed_id)}" for the rss_feeds table.
RssSourceName(feed_names, feed_id) ==
    RssPrefix \o (IF LastIndexOf(feed_names, feed_id) # 0
                  THEN feed_names[LastIndexOf(feed_names, feed_id)].name
                  ELSE IdAsName(feed_id))

\* Lines 498-511: one bucket per word group, in configuration order.
InitTopics(groups) ==
    [i \in DOMAIN groups |->
        [id |-> i - 1, name |-> groups[i].group_key,
         keywords |-> groups[i].keywords, category |-> groups[i].category,
         filter |-> groups[i].filter, count |-> 0,
         news |-> <<>>, rss |-> <<>>, newsCount |-> 0, rssCount |-> 0]]

\* The index of the first bucket with this name, 0 if none (the inner loop
\* of lines 575-580 stops at the first name that is equal).
FirstTopicNamed(topics, name) ==
    IF \E i \in DOMAIN topics : topics[i].name = name
    THEN CHOOSE i \in DOMAIN topics :
            /\ topics[i].name = name
            /\ \A j \in DOMAIN topics : topics[j].name = name => i <= j
    ELSE 0

Titles(items) == { items[k].title : k \in DOMAIN items }

\* AddToTopic without the topic_news_seen / topic_rss_seen test.
AddToTopicUnseen(topics, mt, item) ==
    LET i == FirstTopicNamed(topics, mt.topic)
    IN  IF i = 0
        THEN topics
        ELSE IF item.dataType = "news"
        THEN [topics EXCEPT ![i].news = Append(@, item)]
        ELSE [topics EXCEPT ![i].rss = Append(@, item)]

\* Lines 573-580 and 658-665 for one match result: the item joins the
\* bucket's array of its data type unless that array has the title already
\* (topic_news_seen[i] and topic_rss_seen[i] hold exactly the titles of
\* topics[i]["news"] and topics[i]["rss"]).
AddToTopic(topics, mt, item) ==
    LET i == FirstTopicNamed(topics, mt.topic)
    IN  IF i = 0
        THEN topics
        ELSE IF item.dataType = "news"
        THEN IF item.title \in Titles(topics[i].news)
             THEN topics
             ELSE [topics EXCEPT ![i].news = Append(@, item)]
        ELSE IF item.title \in Titles(topics[i].rss)
             THEN topics
             ELSE [topics EXCEPT ![i].rss = Append(@, item)]

RECURSIVE AddToTopics(_, _, _)
AddToTopics(topics, matched_topics, item) ==
    IF matched_topics = <<>>
    THEN topics
    ELSE AddToTopics(AddToTopic(topics, Head(matched_topics), item),
                     Tail(matched_topics), item)

\* The index of the bucket of sources_dict with this name, 0 if none.
SourceIndex(sources, name) ==
    IF \E i \in DOMAIN sources : sources[i].name = name
    THEN CHOOSE i \in DOMAIN sources : sources[i].name = name
    ELSE 0

\* Lines 582-591 and 667-679: sources_dict as the sequence of its values in
\* insertion order; `fresh` is the bucket made when the name is new.
AddToSource(sources, fresh, item) ==
    LET withBucket == IF SourceIndex(sources, fresh.name) = 0
                      THEN Append(sources, fresh) ELSE sources
        i == SourceIndex(withBucket, fresh.name)
    IN  IF item.dataType = "news"
        THEN [withBucket EXCEPT ![i].news = Append(@, item)]
        ELSE [withBucket EXCEPT ![i].rss = Append(@, item)]

\* An item that goes to a source bucket whatever it matched.
SourceAttributedAlways(matched_topics) == TRUE

\* `if matched_topics:` before an item goes to its source bucket (lines 582
\* and 667).
SourceAttributed(matched_topics) == matched_topics # <<>>

\* One pass of `for row in rows` (lines 545-591) over acc = [topics, sources].
NewsRow(acc, row, freq, platforms) ==
    LET platform_name == PlatformNameOf(platforms, row)
        matched_topics == FindMatchedTopics(row.title, freq.word_groups,
                                            freq.filter_words, freq.global_filters)
        news_item == [title |-> row.title, rank |-> row.rank,
                      source |-> platform_name,
                      matchedTopics |-> matched_topics, dataType |-> "news"]
    IN  IF ~EnabledOf(platforms, row.platform_id)
        THEN acc
        ELSE [topics  |-> AddToTopics(acc.topics, matched_topics, news_item),
              sources |-> IF SourceAttributed(matched_topics)
                          THEN AddToSource(acc.sources,
                                   [id |-> row.platform_id, name |-> platform_name,
                                    order |-> OrderOf(platforms, row.platform_id),
                                    news |-> <<>>, rss |-> <<>>],
                                   news_item)
                          ELSE acc.sources]

RECURSIVE NewsRows(_, _, _, _)
NewsRows(acc, rows, freq, platforms) ==
    IF rows = <<>>
    THEN acc
    ELSE NewsRows(NewsRow(acc, Head(rows), freq, platforms), Tail(rows), freq, platforms)

\* The category of a feed the registry does not list (lines 603, 675).
DefaultFeedCategory == "tech"

\* rss_category.get(feed_id, 'tech')
CategoryOf(feeds, id) ==
    IF LastIndexOf(feeds, id) = 0 THEN DefaultFeedCategory
    ELSE feeds[LastIndexOf(feeds, id)].category

\* One pass of `for row in rss_rows` (lines 625-679).
RssRow(acc, row, freq, feeds, feed_names) ==
    LET source_name == RssSourceName(feed_names, row.feed_id)
        matched_topics == FindMatchedTopics(row.title, freq.word_groups,
                                            freq.filter_words, freq.global_filters)
        rss_item == [title |-> row.title, source |-> source_name,
                     published_at |-> row.published_at,
                     matchedTopics |-> matched_topics, dataType |-> "rss"]
    IN  IF ~EnabledOf(feeds, row.feed_id)
        THEN acc
        ELSE [topics  |-> AddToTopics(acc.topics, matched_topics, rss_item),
              sources |-> IF SourceAttributed(matched_topics)
                          THEN AddToSource(acc.sources,
                                   [id |-> row.feed_id, name |-> source_name,
                                    order |-> OrderOf(feeds, row.feed_id) + RssOrderOffset,
                                    category |-> CategoryOf(feeds, row.feed_id),
                                    news |-> <<>>, rss |-> <<>>],
                                   rss_item)
                          ELSE acc.sources]

RECURSIVE RssRows(_, _, _, _, _)
RssRows(acc, rows, freq, feeds, feed_names) ==
    IF rows = <<>>
    THEN acc
    ELSE RssRows(RssRow(acc, Head(rows), freq, feeds, feed_names), Tail(rows),
                 freq, feeds, feed_names)

\* list.sort(key=rank): stable, ascending.
RECURSIVE InsertByRank(_, _)
InsertByRank(sorted, x) ==
    IF sorted = <<>> THEN <<x>>
    ELSE IF x.rank < Head(sorted).rank THEN <<x>> \o sorted
    ELSE <<Head(sorted)>> \o InsertByRank(Tail(sorted), x)

RECURSIVE SortByRank(_, _)
SortByRank(sorted, items) ==
    IF items = <<>> THEN sorted
    ELSE SortByRank(InsertByRank(sorted, Head(items)), Tail(items))

\* list.sort(key=published_at, reverse=True): stable, descending.
RECURSIVE InsertByPublishedDesc(_, _)
InsertByPublishedDesc(sorted, x) ==
    IF sorted = <<>> THEN <<x>>
    ELSE IF x.published_at > Head(sorted).published_at THEN <<x>> \o sorted
    ELSE <<Head(sorted)>> \o InsertByPublishedDesc(Tail(sorted), x)

RECURSIVE SortByPublishedDesc(_, _)
SortByPublishedDesc(sorted, items) ==
    IF items = <<>> THEN sorted
    ELSE SortByPublishedDesc(InsertByPublishedDesc(sorted, Head(items)), Tail(items))

\* sorted(sources_dict.values(), key=order): stable, ascending.
RECURSIVE InsertByOrder(_, _)
InsertByOrder(sorted, x) ==
    IF sorted = <<>> THEN <<x>>
    ELSE IF x.order < Head(sorted).order THEN <<x>> \o sorted
    ELSE <<Head(sorted)>> \o InsertByOrder(Tail(sorted), x)

RECURSIVE SortByOrder(_, _)
SortByOrder(sorted, items) ==
    IF items = <<>> THEN sorted
    ELSE SortByOrder(InsertByOrder(sorted, Head(items)), Tail(items))

\* Lines 688-693.
FinishTopic(t) ==
    LET news == SortByRank(<<>>, t.news)
        rss == SortByPublishedDesc(<<>>, t.rss)
    IN  [t EXCEPT !.news = news, !.rss = rss,
                  !.newsCount = Len(news), !.rssCount = Len(rss),
                  !.count = Len(news) + Len(rss)]

\* Lines 696-701: the counts are set and `order` is deleted.
FinishSource(s) ==
    [k \in (DOMAIN s \ {"order"}) \cup {"newsCount", "rssCount", "count"} |->
        IF k = "newsCount" THEN Len(s.news)
        ELSE IF k = "rssCount" THEN Len(s.rss)
        ELSE IF k = "count" THEN Len(s.news) + Len(s.rss)
        ELSE s[k]]

\* max(last_crawl_time) of the rows, 0 for an empty table (NULL).
MaxCrawlTime(rows) ==
    IF rows = <<>> THEN 0
    ELSE CHOOSE m \in { rows[i].last_crawl_time : i \in DOMAIN rows } :
            \A i \in DOMAIN rows : rows[i].last_crawl_time <= m

NoData == [ok |-> FALSE]

\* get_data_from_db.  db is what the pass finds on disk:
\*   news, rss : [state, rows] with state "absent" (no file for today),
\*               "fails" (the file exists and the query raises) or "ok";
\*   feed_names: the rss_feeds table;  now: the clock reading of line 520.
\* freq is the return value of load_frequency_config, config that of
\* get_combined_config ([platforms, rss_feeds]).  The result is NoData for
\* the return of (None, None, None).
GetDataFromDb(db, freq, config) ==
    LET news_read == db.news.state = "ok"
        rss_read == db.rss.state = "ok"
        afterNews == IF news_read
                     THEN NewsRows([topics |-> InitTopics(freq.word_groups),
                                    sources |-> <<>>],
                                   db.news.rows, freq, config.platforms)
                     ELSE [topics |-> InitTopics(freq.word_groups), sources |-> <<>>]
        afterRss == IF rss_read
                    THEN RssRows(afterNews, db.rss.rows, freq, config.rss_feeds,
                                 db.feed_names)
                    ELSE afterNews
    IN  IF db.news.state = "absent" /\ db.rss.state = "absent"
        THEN NoData
        ELSE IF freq.word_groups = <<>>
        THEN NoData
        ELSE [ok |-> TRUE,
              update_time |-> IF news_read /\ MaxCrawlTime(db.news.rows) # 0
                              THEN [from |-> "crawl", at |-> MaxCrawlTime(db.news.rows)]
                              ELSE [from |-> "clock", at |-> db.now],
              topics |-> [i \in DOMAIN afterRss.topics |-> FinishTopic(afterRss.topics[i])],
              sources |-> LET sorted == SortByOrder(<<>>, afterRss.sources)
                          IN  [i \in DOMAIN sorted |-> FinishSource(sorted[i])]]

(***************************************************************************)
(* The fallback: parse_index_html.  A page is what the patterns of lines   *)
(* 330-355 find in index.html: its word-group parts, each with the number  *)
(* its word-count element declares (0 without one) and its news-item       *)
(* elements, of which `detail` tells whether news_detail_pattern matches.  *)
(* The url of an item is carried along unchanged and left out.             *)
(***************************************************************************)
\* No index.html (line 316).
NoPage == [exists |-> FALSE, groups |-> <<>>]

\* Lines 359-370: the items whose detail matches, ranked by their place j
\* among all news-item elements of the part.
RECURSIVE HtmlNewsList(_, _, _)
HtmlNewsList(items, j, freq) ==
    IF items = <<>>
    THEN <<>>
    ELSE (IF Head(items).detail
          THEN << [rank |-> j, source |-> Head(items).source,
                   title |-> Head(items).title, isNew |-> Head(items).is_new,
                   matchedTopics |->
                       FindMatchedTopics(Head(items).title, freq.word_groups,
                                         freq.filter_words, freq.global_filters)] >>
          ELSE <<>>)
         \o HtmlNewsList(Tail(items), j + 1, freq)

\* The count of a topic of the page (line 375): the declared number unless
\* it is 0.
HtmlTopicCount(declared, news_list) ==
    IF declared # 0 THEN declared ELSE Len(news_list)

\* Lines 341-377 and 383-393: the i-th part of the page as a topic; name,
\* keywords and category come from the i-th word group when there is one.
HtmlTopic(i, group, freq) ==
    LET news_list == HtmlNewsList(group.items, 1, freq)
        configured == i <= Len(freq.word_groups)
    IN  [id |-> i - 1,
         name |-> IF configured THEN freq.word_groups[i].group_key ELSE group.name,
         count |-> HtmlTopicCount(group.declared, news_list),
         news |-> news_list,
         keywords |-> IF configured THEN freq.word_groups[i].keywords ELSE <<>>,
         category |-> IF configured THEN freq.word_groups[i].category
                      ELSE DefaultCategory]

HtmlTopics(page, freq) ==
    [i \in DOMAIN page.groups |-> HtmlTopic(i, page.groups[i], freq)]

\* Lines 408-420: one news item of a topic added to the list of its source,
\* a new source at the end.
HtmlAddToSource(sources, topic, news) ==
    LET entry == [title |-> news.title, topic |-> topic.name,
                  matchedTopics |-> news.matchedTopics, isNew |-> news.isNew]
    IN  IF \E k \in DOMAIN sources : sources[k].name = news.source
        THEN [k \in DOMAIN sources |->
                 IF sources[k].name = news.source
                 THEN [sources[k] EXCEPT !.news = Append(@, entry)]
                 ELSE sources[k]]
        ELSE Append(sources, [name |-> news.source, news |-> <<entry>>])

RECURSIVE HtmlTopicSources(_, _, _)
HtmlTopicSources(sources, topic, news_list) ==
    IF news_list = <<>> THEN sources
    ELSE HtmlTopicSources(HtmlAddToSource(sources, topic, Head(news_list)),
                          topic, Tail(news_list))

\* Lines 403-420.
RECURSIVE HtmlSources(_, _)
HtmlSources(sources, topics) ==
    IF topics = <<>> THEN sources
    ELSE HtmlSources(HtmlTopicSources(sources, Head(topics), Head(topics).news),
                     Tail(topics))

\* The index of the last platform of the registry with this name, 0 if
\* none: platform_order and enabled_by_name are keyed by name (426-427).
LastIndexNamed(platforms, name) ==
    IF \E i \in DOMAIN platforms : platforms[i].name = name
    THEN CHOOSE i \in DOMAIN platforms :
            /\ platforms[i].name = name
            /\ \A j \in DOMAIN platforms : platforms[j].name = name => j <= i
    ELSE 0

\* platform_order.get(name, 999)
HtmlOrderOf(platforms, name) ==
    IF LastIndexNamed(platforms, name) = 0 THEN UnlistedOrder
    ELSE LastIndexNamed(platforms, name) - 1

\* enabled_by_name.get(name, True)
HtmlEnabledOf(platforms, name) ==
    IF LastIndexNamed(platforms, name) = 0 THEN TRUE
    ELSE platforms[LastIndexNamed(platforms, name)].enabled

\* list.sort(key=(order, -count)): stable.
RECURSIVE InsertByOrderAndCount(_, _)
InsertByOrderAndCount(sorted, x) ==
    IF sorted = <<>> THEN <<x>>
    ELSE IF \/ x.order < Head(sorted).order
            \/ x.order = Head(sorted).order /\ x.count > Head(sorted).count
    THEN <<x>> \o sorted
    ELSE <<Head(sorted)>> \o InsertByOrderAndCount(Tail(sorted), x)

RECURSIVE SortByOrderAndCount(_, _)
SortByOrderAndCount(sorted, items) ==
    IF items = <<>> THEN sorted
    ELSE SortByOrderAndCount(InsertByOrderAndCount(sorted, Head(items)), Tail(items))

\* Lines 429-440: the list of sources with count and order, the disabled
\* ones dropped, sorted, `order` deleted.
HtmlSourcesList(sources, platforms) ==
    LET listed == [k \in DOMAIN sources |->
                      [name |-> sources[k].name, count |-> Len(sources[k].news),
                       news |-> sources[k].news,
                       order |-> HtmlOrderOf(platforms, sources[k].name)]]
        enabled == SelectSeq(listed, LAMBDA x : HtmlEnabledOf(platforms, x.name))
        sorted == SortByOrderAndCount(<<>>, enabled)
    IN  [k \in DOMAIN sorted |->
            [name |-> sorted[k].name, count |-> sorted[k].count,
             news |-> sorted[k].news]]

\* parse_index_html on a page; freq is the return value of
\* load_frequency_config, config that of get_combined_config.  The result
\* is NoData for the return of (None, None, None).
ParseIndexHtmlPage(page, freq, config) ==
    IF ~page.exists
    THEN NoData
    ELSE LET topics == HtmlTopics(page, freq)
         IN  [ok |-> TRUE, update_time |-> [from |-> "html", at |-> 0],
              topics |-> topics,
              sources |-> HtmlSourcesList(HtmlSources(<<>>, topics), config.platforms)]

(***************************************************************************)
(* State.                                                                  *)
(***************************************************************************)
VARIABLES
    title,           \* the title handed to find_matched_topics
    word_groups,     \* its word_groups argument
    filter_words,    \* its filter_words argument
    global_filters,  \* its global_filters argument
    matched,         \* its return value
    content,         \* the text of frequency_words.txt handed to the parsers
    svc_groups,      \* the return value of ParserService.parse_frequency_words
    svc_pc,          \* whether ParserService has parsed the text
    mpc,             \* where the matcher run stands
    db,              \* today's stores on disk: the news and rss databases
    freq,            \* the word groups an aggregation pass works with
    registry,        \* the merged Source Registry (get_combined_config)
    view,            \* the return value of get_data_from_db
    apc,             \* where the aggregation run stands
    cache,           \* the global cache dict, each field with the call that set it
    cache_lock,      \* the holder of cache_lock, "none" when free
    frequency_cache, \* the global frequency_cache dict
    freq_file,       \* frequency_words.txt: its mtime and content
    db_mtime,        \* st_mtime of today's news database
    html,            \* output/index.html: whether it exists, and its page
    pc,              \* program counter of the main and the watcher thread
    rc,              \* the locals of each thread's refresh_cache call
    watch,           \* the locals of watch_file
    crawl_status,    \* APIHandler.crawl_status
    crawls,          \* the run_crawl threads started so far, by position
    request,         \* the request the main thread serves and its response
    calls,           \* history: the refresh_cache calls made so far
    config_yaml,     \* the platforms list of config.yaml
    user_settings_file, \* user_settings.json: the stored settings dict
    sv,              \* the locals of the handler's save_user_settings call
    gc,              \* the locals of a get_combined_config call
    saves,           \* history: the save_user_settings calls that returned True
    lf               \* the locals of each thread's load_frequency_config call

matcherVars ==
    <<title, word_groups, filter_words, global_filters, matched, content,
      svc_groups, svc_pc, mpc>>

aggVars == <<db, freq, registry, view, apc>>

srvVars == <<cache, cache_lock, frequency_cache, freq_file, db_mtime, html, pc, rc,
            watch, crawl_status, crawls, request, calls>>

settingsVars == <<config_yaml, user_settings_file, sv, gc, saves, lf>>

vars == <<matcherVars, aggVars, srvVars, settingsVars>>

(***************************************************************************)
(* Inputs of the classifier runs (SpecMatch): find_matched_topics is       *)
(* applied to every title and configuration of these bounded sets.         *)
(***************************************************************************)
MaxTitleLen == 2

MaxTerms == 2

TitleChars == {"a", "b", "A"}

\* The sequences over S of length at most n.
SeqsUpTo(S, n) == UNION { [1..k -> S] : k \in 0..n }

MatchTitles == SeqsUpTo(TitleChars, MaxTitleLen)

RequiredTerms ==
    { Term(<<"a">>, FALSE, NoDisplay), Term(<<"b">>, FALSE, <<"x">>) }

NormalTerms ==
    { Term(<<"a">>, FALSE, NoDisplay), Term(<<"B">>, FALSE, NoDisplay),
      Term(<<"a", ".">>, TRUE, <<"y">>) }

GroupFilterLists == { <<>>, <<Term(<<"b", "b">>, FALSE, NoDisplay)>> }

FilterWordLists == { <<>>, <<Term(<<"b", "a">>, FALSE, NoDisplay)>> }

GlobalFilterLists == { <<>>, << <<"A", "b">> >> }

MatchGroup(key, req, nor, fil) ==
    [required |-> req, normal |-> nor, filter |-> fil, group_key |-> key]

KeyOne == <<"g", "1">>

KeyTwo == <<"g", "2">>

MatchGroupsOne ==
    { MatchGroup(KeyOne, req, nor, fil) :
        req \in SeqsUpTo(RequiredTerms, MaxTerms),
        nor \in SeqsUpTo(NormalTerms, MaxTerms),
        fil \in GroupFilterLists }

\* A second group, listed after the first.
SecondGroup ==
    MatchGroup(KeyTwo, <<>>, <<Term(<<"b">>, FALSE, NoDisplay)>>, <<>>)

MatchGroupLists ==
    { <<>> } \cup { <<g>> : g \in MatchGroupsOne }
             \cup { <<g, SecondGroup>> : g \in MatchGroupsOne }

NoText == <<>>

NoFreq == [word_groups |-> <<>>, filter_words |-> <<>>, global_filters |-> <<>>]

NoRegistry == [platforms |-> <<>>, rss_feeds |-> <<>>]

NoStore == [state |-> "absent", rows |-> <<>>]

NoDb == [news |-> NoStore, rss |-> NoStore, feed_names |-> <<>>, now |-> 0]

\* The aggregation variables of a run that does not aggregate.
AggUnused ==
    /\ db = NoDb
    /\ freq = NoFreq
    /\ registry = NoRegistry
    /\ view = NoData
    /\ apc = "unused"

\* update_time before the first refresh ("" at line 60).
NoTime == [from |-> "none", at |-> 0]

\* A cache field as the module sets it (lines 59-65): call 0 is construction.
FieldInit(v) == [value |-> v, by |-> 0]

CacheInit ==
    [update_time |-> FieldInit(NoTime), topics |-> FieldInit(<<>>),
     sources |-> FieldInit(<<>>), last_modified |-> FieldInit(0),
     cache_time |-> FieldInit(0)]

\* frequency_cache as the module sets it (lines 69-74).
FrequencyCacheInit ==
    [word_groups |-> <<>>, filter_words |-> <<>>, global_filters |-> <<>>,
     last_modified |-> 0]

\* The locals of a thread that is not inside refresh_cache.
RcIdle ==
    [call |-> 0, from |-> "none", freq |-> NoFreq, result |-> NoData, next |-> 0,
     ret |-> FALSE]

NoRequest == [kind |-> "none", state |-> "none", next |-> 0, resp |-> <<>>]

Threads == {"main", "watcher"}

\* APIHandler.crawl_status as the class body creates it (line 832); last_run
\* is the number of the crawl that recorded it, 0 for the empty string.
CrawlStatusInit == [running |-> FALSE, last_run |-> 0, message |-> ""]

\* The server variables of a run without the server.
ServerUnused ==
    /\ cache = CacheInit
    /\ cache_lock = "none"
    /\ frequency_cache = FrequencyCacheInit
    /\ freq_file = [mtime |-> 0, content |-> NoText]
    /\ db_mtime = 0
    /\ html = NoPage
    /\ pc = [t \in Threads |-> "unused"]
    /\ rc = [t \in Threads |-> RcIdle]
    /\ watch = [last_db_mtime |-> 0, last_freq_mtime |-> 0]
    /\ crawl_status = CrawlStatusInit
    /\ crawls = <<>>
    /\ request = NoRequest
    /\ calls = <<>>

\* The locals of save_user_settings and of get_combined_config before a call.
SvIdle == [pc |-> "unused", settings |-> <<>>, current_settings |-> <<>>]

GcIdle == [pc |-> "unused", user_settings |-> <<>>, platforms |-> <<>>,
           current_settings |-> <<>>]

\* The locals of load_frequency_config before a call: the mtime it read,
\* the parse it made, the three values it returned so far.
NoParse == [groups |-> <<>>, filter_words |-> <<>>, global_filters |-> <<>>]

LfIdle == [pc |-> "unused", current_mtime |-> 0, parsed |-> NoParse, got |-> NoParse,
           posts |-> 0]

\* The settings variables of a run that neither saves nor merges settings.
SettingsUnused ==
    /\ config_yaml = <<>>
    /\ user_settings_file = <<>>
    /\ sv = SvIdle
    /\ gc = GcIdle
    /\ saves = <<>>
    /\ lf = [t \in Threads |-> LfIdle]

\* The matcher variables of a run that does not classify on its own.
MatcherUnused ==
    /\ title = NoText
    /\ word_groups = <<>>
    /\ filter_words = <<>>
    /\ global_filters = <<>>
    /\ matched = <<>>
    /\ content = NoText
    /\ svc_groups = <<>>
    /\ svc_pc = "unused"
    /\ mpc = "unused"

InitMatch ==
    /\ SettingsUnused
    /\ AggUnused
    /\ ServerUnused
    /\ title \in MatchTitles
    /\ word_groups \in MatchGroupLists
    /\ filter_words \in FilterWordLists
    /\ global_filters \in GlobalFilterLists
    /\ matched = <<>>
    /\ content = NoText
    /\ svc_groups = <<>>
    /\ svc_pc = "idle"
    /\ mpc = "input"

\* A call of find_matched_topics (api_server.py lines 397, 412, 561, 644).
Classify ==
    /\ mpc \in {"input", "loaded"}
    /\ matched' = FindMatchedTopics(title, word_groups, filter_words, global_filters)
    /\ mpc' = "matched"
    /\ UNCHANGED <<title, word_groups, filter_words, global_filters, content,
                   svc_groups, svc_pc, aggVars, srvVars, settingsVars>>

NextMatch == Classify

SpecMatch == InitMatch /\ [][NextMatch]_vars

(***************************************************************************)
(* Parser runs (SpecParse): a configuration text is parsed by              *)
(* load_frequency_words_extended, a title is classified against the result,*)
(* and ParserService parses the same text.                                 *)
(***************************************************************************)
MaxBlockLines == 2

LineRequiredChina == <<"+","c","h","i","n","a">>

LineJapanKorea == <<"j","a","p","a","n",",","k","o","r","e","a">>

LineJapan == <<"j","a","p","a","n">>

LineFilterKorea == <<"!","k","o","r","e","a">>

LineNameAsia == <<"#","a","s","i","a"," ","@","g","e","o">>

LineKoreaAlias == <<"k","o","r","e","a"," ","=",">"," ","k","r">>

\* A line that is a prefix character and nothing else.
LineBang == <<"!">>

LinePlus == <<"+">>

ParseLines ==
    { LineRequiredChina, LineJapanKorea, LineJapan, LineFilterKorea, LineNameAsia,
      LineKoreaAlias, LineBang, LinePlus }

\* "\n".join(lines)
RECURSIVE JoinLines(_)
JoinLines(lines) ==
    IF lines = <<>> THEN <<>>
    ELSE IF Len(lines) = 1 THEN Head(lines)
    ELSE Head(lines) \o <<"\n">> \o JoinLines(Tail(lines))

LineKorea == <<"k","o","r","e","a">>

\* One block of the file: up to MaxBlockLines lines.
ParseBlocks ==
    { JoinLines(ls) : ls \in SeqsUpTo(ParseLines, MaxBlockLines) \ { <<>> } }

\* The files parsed: one block, or a block followed by an empty line and the
\* block of the word korea.
ParseContents ==
    ParseBlocks \cup { b \o <<"\n", "\n">> \o LineKorea : b \in ParseBlocks }

TitleChinaJapan == <<"C","h","i","n","a"," ","t","r","a","d","e"," ","w","i","t","h"," ","J","a","p","a","n">>

TitleChinaEconomy == <<"C","h","i","n","a"," ","e","c","o","n","o","m","y">>

TitleKoreaJapan == <<"K","o","r","e","a"," ","a","n","d"," ","J","a","p","a","n">>

ParseTitles == { TitleChinaJapan, TitleChinaEconomy, TitleKoreaJapan, NoText }

InitParse ==
    /\ SettingsUnused
    /\ AggUnused
    /\ ServerUnused
    /\ title \in ParseTitles
    /\ content \in ParseContents
    /\ word_groups = <<>>
    /\ filter_words = <<>>
    /\ global_filters = <<>>
    /\ matched = <<>>
    /\ svc_groups = <<>>
    /\ svc_pc = "idle"
    /\ mpc = "text"

\* A call of load_frequency_words_extended (api_server.py line 94).
LoadConfig ==
    /\ mpc = "text"
    /\ LET parsed == LoadFrequencyWordsExtended(content)
       IN  /\ word_groups' = parsed.groups
           /\ filter_words' = parsed.filter_words
           /\ global_filters' = parsed.global_filters
    /\ mpc' = "loaded"
    /\ UNCHANGED <<title, matched, content, svc_groups, svc_pc, aggVars, srvVars, settingsVars>>

\* A call of ParserService.parse_frequency_words.
ServiceParse ==
    /\ mpc # "input"
    /\ svc_pc = "idle"
    /\ svc_groups' = ServiceParseFrequencyWords(content)
    /\ svc_pc' = "done"
    /\ UNCHANGED <<title, word_groups, filter_words, global_filters, matched,
                   content, mpc, aggVars, srvVars, settingsVars>>

NextParse == LoadConfig \/ ServiceParse \/ Classify

SpecParse == InitParse /\ [][NextParse]_vars

(***************************************************************************)
(* Section runs (SpecSections): the parsers read a text laid out as blocks *)
(* with or without a section header.  A layout is the sequence of its      *)
(* blocks, each [header, lines]; the text is what an editor writes for it: *)
(* the header line, the lines, and one empty line between two blocks.      *)
(***************************************************************************)
MaxSectionBlocks == 2

HeaderGlobalFilter == <<"[","G","L","O","B","A","L","_","F","I","L","T","E","R","]">>

HeaderWordGroups == <<"[","W","O","R","D","_","G","R","O","U","P","S","]">>

\* A block that starts with no section header.
NoHeader == <<>>

SectionBodies ==
    { <<>>, <<LineKorea>>, <<LineJapan, LineKorea>>, <<LineFilterKorea, LineJapan>> }

SectionLayoutBlocks ==
    { [header |-> h, lines |-> ls] :
        h \in {NoHeader, SectionGlobalFilter, SectionWordGroups}, ls \in SectionBodies }
    \ { [header |-> NoHeader, lines |-> <<>>] }

SectionLayouts == SeqsUpTo(SectionLayoutBlocks, MaxSectionBlocks) \ { <<>> }

BlockText(b) ==
    JoinLines((IF b.header = SectionGlobalFilter THEN <<HeaderGlobalFilter>>
               ELSE IF b.header = SectionWordGroups THEN <<HeaderWordGroups>>
               ELSE <<>>) \o b.lines)

RECURSIVE LayoutText(_)
LayoutText(d) ==
    IF Len(d) = 1 THEN BlockText(d[1])
    ELSE BlockText(d[1]) \o <<"\n", "\n">> \o LayoutText(Tail(d))

SectionTexts == [d \in SectionLayouts |-> LayoutText(d)]

InitSections ==
    /\ SettingsUnused
    /\ AggUnused
    /\ ServerUnused
    /\ title = TitleKoreaJapan
    /\ content \in { SectionTexts[d] : d \in SectionLayouts }
    /\ word_groups = <<>>
    /\ filter_words = <<>>
    /\ global_filters = <<>>
    /\ matched = <<>>
    /\ svc_groups = <<>>
    /\ svc_pc = "idle"
    /\ mpc = "text"

SpecSections == InitSections /\ [][NextParse]_vars

(***************************************************************************)
(* Aggregation runs (SpecAgg): get_data_from_db is applied to every store  *)
(* content and registry of these bounded sets.                             *)
(***************************************************************************)
MaxNewsRows == 2

MaxRssRows == 1

\* Two topics: T1 matches titles holding "a", T2 titles holding "b".
AggConfigText == <<"#","T","1","\n","a","\n","\n","#","T","2","\n","b">>

AggFreq ==
    LET parsed == LoadFrequencyWordsExtended(AggConfigText)
    IN  [word_groups |-> parsed.groups, filter_words |-> parsed.filter_words,
         global_filters |-> parsed.global_filters]

\* Titles: of T1, of T1 and T2, of no topic.
AggTitles == { <<"a">>, <<"a", "b">>, <<"c">> }

PlatformIds == <<"p1", "p2", "p3">>

FeedIds == <<"f1", "f2">>

Ranks == {1, 2}

\* The name the platforms table of the news database joins to an id; p2 has
\* no row there (NULL).
DbPlatformName(id) == IF id = "p2" THEN <<>> ELSE <<"db-" \o id>>

NewsRowUniverse ==
    { [title |-> t, rank |-> r, platform_id |-> PlatformIds[i],
       platform_name |-> DbPlatformName(PlatformIds[i]), last_crawl_time |-> r] :
        t \in AggTitles, r \in Ranks, i \in DOMAIN PlatformIds }

RssRowUniverse ==
    { [title |-> t, feed_id |-> FeedIds[i], published_at |-> r] :
        t \in AggTitles \ { <<"c">> }, r \in Ranks, i \in DOMAIN FeedIds }

IndexIn(seq, x) == CHOOSE i \in DOMAIN seq : seq[i] = x

\* ORDER BY n.platform_id, n.rank (line 534).
NewsBefore(x, y) ==
    \/ IndexIn(PlatformIds, x.platform_id) < IndexIn(PlatformIds, y.platform_id)
    \/ x.platform_id = y.platform_id /\ x.rank <= y.rank

RECURSIVE OrderNews(_)
OrderNews(table) ==
    IF table = {}
    THEN <<>>
    ELSE LET first == CHOOSE x \in table : \A y \in table : NewsBefore(x, y)
         IN  <<first>> \o OrderNews(table \ {first})

\* ORDER BY published_at DESC (line 615); rows published together come in
\* feed order, then title length.
RssBefore(x, y) ==
    \/ x.published_at > y.published_at
    \/ /\ x.published_at = y.published_at
       /\ \/ IndexIn(FeedIds, x.feed_id) < IndexIn(FeedIds, y.feed_id)
          \/ x.feed_id = y.feed_id /\ Len(x.title) <= Len(y.title)

RECURSIVE OrderRss(_)
OrderRss(table) ==
    IF table = {}
    THEN <<>>
    ELSE LET first == CHOOSE x \in table : \A y \in table : RssBefore(x, y)
         IN  <<first>> \o OrderRss(table \ {first})

\* A platform's hot list has one item per rank.
NewsTables ==
    { tb \in SUBSET NewsRowUniverse :
        /\ Cardinality(tb) <= MaxNewsRows
        /\ \A x, y \in tb : (x.platform_id = y.platform_id /\ x.rank = y.rank) => x = y }

RssTables == { tb \in SUBSET RssRowUniverse : Cardinality(tb) <= MaxRssRows }

NewsStores ==
    { NoStore, [state |-> "fails", rows |-> <<>>] }
        \cup { [state |-> "ok", rows |-> OrderNews(tb)] : tb \in NewsTables }

RssStores ==
    { NoStore, [state |-> "fails", rows |-> <<>>] }
        \cup { [state |-> "ok", rows |-> OrderRss(tb)] : tb \in RssTables }

\* The rss_feeds table names f1 only.
AggFeedNames == << [id |-> "f1", name |-> <<"Feed One">>] >>

PlatformEntry(id, on) == [id |-> id, name |-> <<"name-" \o id>>, enabled |-> on]

\* The merged registry lists p1 and p2 in either order, each enabled or not,
\* and the feed f1, enabled or not; p3 and f2 are not listed.
AggRegistries ==
    { [platforms |-> ps, rss_feeds |-> << [id |-> "f1", enabled |-> f, category |-> "tech"] >>] :
        ps \in { <<PlatformEntry("p1", a), PlatformEntry("p2", b)>> : a, b \in BOOLEAN }
                \cup { <<PlatformEntry("p2", b), PlatformEntry("p1", a)>> : a, b \in BOOLEAN },
        f \in BOOLEAN }

InitAgg ==
    /\ SettingsUnused
    /\ MatcherUnused
    /\ ServerUnused
    /\ db \in { [news |-> n, rss |-> r, feed_names |-> AggFeedNames, now |-> 0] :
                    n \in NewsStores, r \in RssStores }
    /\ freq \in { AggFreq, NoFreq }
    /\ registry \in AggRegistries
    /\ view = NoData
    /\ apc = "input"

\* A call of get_data_from_db (line 715).
Aggregate ==
    /\ apc = "input"
    /\ view' = GetDataFromDb(db, freq, registry)
    /\ apc' = "done"
    /\ UNCHANGED <<db, freq, registry, matcherVars, srvVars, settingsVars>>

NextAgg == Aggregate

SpecAgg == InitAgg /\ [][NextAgg]_vars

(***************************************************************************)
(* Ordering runs (SpecOrder): get_data_from_db over news tables of up to   *)
(* MaxOrderRows rows that all match a topic, with a registry that lists p1 *)
(* alone, so that p2 and p3 both get the default order.  The word groups   *)
(* are T1 and T2, or two groups that are both named T1.                    *)
(***************************************************************************)
MaxOrderRows == 3

\* Two blocks with the same `#` name: titles holding "a", titles holding "b".
SameNameConfigText == <<"#","T","1","\n","a","\n","\n","#","T","1","\n","b">>

SameNameFreq ==
    LET parsed == LoadFrequencyWordsExtended(SameNameConfigText)
    IN  [word_groups |-> parsed.groups, filter_words |-> parsed.filter_words,
         global_filters |-> parsed.global_filters]

OrderTables ==
    { tb \in SUBSET { x \in NewsRowUniverse : x.title # <<"c">> } :
        /\ Cardinality(tb) <= MaxOrderRows
        /\ \A x, y \in tb : (x.platform_id = y.platform_id /\ x.rank = y.rank) => x = y }

OrderRegistry == [platforms |-> <<PlatformEntry("p1", TRUE)>>, rss_feeds |-> <<>>]

InitOrder ==
    /\ SettingsUnused
    /\ MatcherUnused
    /\ ServerUnused
    /\ db \in { [news |-> [state |-> "ok", rows |-> OrderNews(tb)], rss |-> NoStore,
                  feed_names |-> AggFeedNames, now |-> 0] : tb \in OrderTables }
    /\ freq \in { AggFreq, SameNameFreq }
    /\ registry = OrderRegistry
    /\ view = NoData
    /\ apc = "input"

SpecOrder == InitOrder /\ [][NextAgg]_vars

(***************************************************************************)
(* Fallback runs (SpecHtml): parse_index_html is applied to report pages   *)
(* of one or two word-group parts with up to MaxPageItems news items.      *)
(***************************************************************************)
MaxPageItems == 2

\* The news-item elements of a page: an item of platform p1 with a title of
\* T1, an item of a platform the registry does not list with a title of T1
\* and T2, and an element news_detail_pattern does not match.
PageItems ==
    { [detail |-> TRUE, source |-> <<"name-p1">>, title |-> <<"a">>, is_new |-> FALSE],
      [detail |-> TRUE, source |-> <<"elsewhere">>, title |-> <<"a", "b">>, is_new |-> TRUE],
      [detail |-> FALSE, source |-> <<>>, title |-> <<>>, is_new |-> FALSE] }

\* The word-group parts: any items, and a declared count from none (0) up
\* to MaxPageItems.
PageGroups ==
    { [name |-> <<"part">>, declared |-> n, items |-> items] :
        n \in 0..MaxPageItems, items \in SeqsUpTo(PageItems, MaxPageItems) }

\* A second part: one item of p1, nothing declared.
SecondPageGroup ==
    [name |-> <<"next">>, declared |-> 0,
     items |-> << [detail |-> TRUE, source |-> <<"name-p1">>, title |-> <<"b">>,
                   is_new |-> FALSE] >>]

Pages ==
    { [exists |-> TRUE, groups |-> <<g>>] : g \in PageGroups }
        \cup { [exists |-> TRUE, groups |-> <<g, SecondPageGroup>>] : g \in PageGroups }

InitHtml ==
    /\ SettingsUnused
    /\ MatcherUnused
    /\ db = NoDb
    /\ freq = AggFreq
    /\ registry \in { [platforms |-> <<PlatformEntry("p1", on)>>, rss_feeds |-> <<>>] :
                         on \in BOOLEAN }
    /\ view = NoData
    /\ apc = "input"
    /\ cache = CacheInit
    /\ cache_lock = "none"
    /\ frequency_cache = FrequencyCacheInit
    /\ freq_file = [mtime |-> 0, content |-> NoText]
    /\ db_mtime = 0
    /\ html \in Pages
    /\ pc = [t \in Threads |-> "unused"]
    /\ rc = [t \in Threads |-> RcIdle]
    /\ watch = [last_db_mtime |-> 0, last_freq_mtime |-> 0]
    /\ crawl_status = CrawlStatusInit
    /\ crawls = <<>>
    /\ request = NoRequest
    /\ calls = <<>>

\* A call of parse_index_html (line 720).
ParseHtml ==
    /\ apc = "input"
    /\ view' = ParseIndexHtmlPage(html, freq, registry)
    /\ apc' = "done"
    /\ UNCHANGED <<db, freq, registry, matcherVars, srvVars, settingsVars>>

NextHtml == ParseHtml

SpecHtml == InitHtml /\ [][NextHtml]_vars

(***************************************************************************)
(* The server (Spec): main() refreshes the cache, starts the watcher       *)
(* thread and serves requests one at a time (HTTPServer); run_crawl runs   *)
(* in threads of its own.                                                  *)
(***************************************************************************)
MaxCalls == 3

MaxCrawls == 3

MaxDbWrites == 1

MaxConfigWrites == 1

\* Variables the server leaves alone.
unusedInServer == <<matcherVars, freq, view, apc, settingsVars>>

ServerRowA ==
    [title |-> <<"a">>, rank |-> 1, platform_id |-> "p1",
     platform_name |-> DbPlatformName("p1"), last_crawl_time |-> 1]

ServerRowAB ==
    [title |-> <<"a", "b">>, rank |-> 2, platform_id |-> "p1",
     platform_name |-> DbPlatformName("p1"), last_crawl_time |-> 2]

FailingStore == [state |-> "fails", rows |-> <<>>]

DbWithNews(store) == [news |-> store, rss |-> NoStore, feed_names |-> <<>>, now |-> 0]

\* Today's stores when the server starts: none yet, or a news database
\* with one row.
InitDbs ==
    { DbWithNews(NoStore), DbWithNews([state |-> "ok", rows |-> <<ServerRowA>>]) }

\* What a run of the crawler leaves behind: a news database whose query
\* raises, or one with two rows.
CrawlDbs ==
    { DbWithNews(FailingStore),
      DbWithNews([state |-> "ok", rows |-> <<ServerRowA, ServerRowAB>>]) }

\* The crawler (python -m trendradar, line 857) writes today's database.
CrawlerWrites ==
    /\ db_mtime <= MaxDbWrites
    /\ db' \in CrawlDbs
    /\ db_mtime' = db_mtime + 1

\* A configuration a client posts: the topic T2 alone.
PostedConfigText == <<"#", "T", "2", "\n", "b">>

SavedTopicsOrders == { <<>>, << [name |-> <<"T", "2">>, enabled |-> FALSE] >> }

ServerRegistries ==
    { [platforms |-> <<PlatformEntry("p1", TRUE), PlatformEntry("p2", TRUE)>>,
       rss_feeds |-> << [id |-> "f1", enabled |-> TRUE, category |-> "tech"] >>,
       topics_order |-> o] : o \in SavedTopicsOrders }

\* A report page without word groups.
EmptyPage == [exists |-> TRUE, groups |-> <<>>]

\* topics_map = {t['name']: t ...}: the last topic of a name, 0 if none.
LastTopicNamed(topics, name) ==
    IF \E i \in DOMAIN topics : topics[i].name = name
    THEN CHOOSE i \in DOMAIN topics :
            /\ topics[i].name = name
            /\ \A j \in DOMAIN topics : topics[j].name = name => j <= i
    ELSE 0

\* topic_data['enabled'] = saved.get('enabled', True) writes the topic in
\* place: the last saved entry of a name decides.
SavedEnabled(topics_order, name) ==
    LET last == CHOOSE i \in DOMAIN topics_order :
                    /\ topics_order[i].name = name
                    /\ \A j \in DOMAIN topics_order :
                          topics_order[j].name = name => j <= i
    IN  topics_order[last].enabled

WithEnabled(topic, on) ==
    [k \in DOMAIN topic \cup {"enabled"} |-> IF k = "enabled" THEN on ELSE topic[k]]

\* Lines 752-764.
RECURSIVE OrderedTopics(_, _, _)
OrderedTopics(topics, saved, topics_order) ==
    IF saved = <<>>
    THEN <<>>
    ELSE LET i == LastTopicNamed(topics, Head(saved).name)
         IN  (IF i = 0
              THEN <<>>
              ELSE << WithEnabled(topics[i], SavedEnabled(topics_order, Head(saved).name)) >>)
                 \o OrderedTopics(topics, Tail(saved), topics_order)

\* Lines 767-770.
RECURSIVE NewTopics(_, _)
NewTopics(topics, topics_order) ==
    IF topics = <<>>
    THEN <<>>
    ELSE (IF \E i \in DOMAIN topics_order : topics_order[i].name = Head(topics).name
          THEN <<>>
          ELSE << WithEnabled(Head(topics), TRUE) >>)
             \o NewTopics(Tail(topics), topics_order)

\* apply_topics_order
ApplyTopicsOrder(topics, topics_order) ==
    IF topics_order = <<>>
    THEN topics
    ELSE OrderedTopics(topics, topics_order, topics_order) \o NewTopics(topics, topics_order)

Init ==
    /\ SettingsUnused
    /\ MatcherUnused
    /\ freq = NoFreq
    /\ view = NoData
    /\ apc = "unused"
    /\ db \in InitDbs
    /\ registry \in ServerRegistries
    /\ cache = CacheInit
    /\ cache_lock = "none"
    /\ frequency_cache = FrequencyCacheInit
    /\ freq_file = [mtime |-> 1, content |-> AggConfigText]
    /\ db_mtime = IF db.news.state = "absent" THEN 0 ELSE 1
    /\ html \in {NoPage, EmptyPage}
    /\ pc = [t \in Threads |-> IF t = "main" THEN "startup" ELSE "not_started"]
    /\ rc = [t \in Threads |-> RcIdle]
    /\ watch = [last_db_mtime |-> 0, last_freq_mtime |-> 0]
    /\ crawl_status = CrawlStatusInit
    /\ crawls = <<>>
    /\ request = NoRequest
    /\ calls = <<>>

\* The history entry of a refresh_cache call that begins: whether a query
\* raised, what it returned, the modification times of the database and of
\* the configuration its result was built from, and how many cache fields
\* it has assigned.
NewCall ==
    [raised |-> FALSE, ret |-> "pending", key |-> [db |-> 0, freq |-> 0],
     installed |-> 0, queried |-> FALSE]

\* Entry of refresh_cache by thread t; `from` is where it returns to.
RefreshEnter(t, from) ==
    /\ Len(calls) < MaxCalls
    /\ calls' = Append(calls, NewCall)
    /\ rc' = [rc EXCEPT ![t] = [RcIdle EXCEPT !.call = Len(calls) + 1, !.from = from]]
    /\ pc' = [pc EXCEPT ![t] = "rc_exists"]

\* get_data_from_db, lines 454-461: is there a database for today?
GetDataExists(t) ==
    /\ pc[t] = "rc_exists"
    /\ pc' = [pc EXCEPT ![t] = IF db.news.state = "absent" /\ db.rss.state = "absent"
                               THEN "rc_fallback" ELSE "rc_load"]
    /\ UNCHANGED <<unusedInServer, db, registry, cache, cache_lock, frequency_cache,
                   freq_file, db_mtime, html, rc, watch, crawl_status, crawls,
                   request, calls>>

\* load_frequency_config (lines 77-106) as called at line 464.
LoadedFrequencyCache ==
    IF freq_file.mtime > frequency_cache.last_modified
    THEN LET parsed == LoadFrequencyWordsExtended(freq_file.content)
         IN  [word_groups |-> parsed.groups, filter_words |-> parsed.filter_words,
              global_filters |-> parsed.global_filters,
              last_modified |-> freq_file.mtime]
    ELSE frequency_cache

GetDataLoadConfig(t) ==
    /\ pc[t] = "rc_load"
    /\ frequency_cache' = LoadedFrequencyCache
    /\ rc' = [rc EXCEPT ![t].freq =
                 [word_groups |-> frequency_cache'.word_groups,
                  filter_words |-> frequency_cache'.filter_words,
                  global_filters |-> frequency_cache'.global_filters]]
    /\ calls' = [calls EXCEPT ![rc[t].call].key.freq = frequency_cache'.last_modified]
    /\ pc' = [pc EXCEPT ![t] = IF frequency_cache'.word_groups = <<>>
                               THEN "rc_fallback" ELSE "rc_query"]
    /\ UNCHANGED <<unusedInServer, db, registry, cache, cache_lock, freq_file,
                   db_mtime, html, watch, crawl_status, crawls, request>>

\* get_data_from_db from line 469 on: the stores are read, a query that
\* raises is caught at line 594 or 682.
GetDataQuery(t) ==
    /\ pc[t] = "rc_query"
    /\ rc' = [rc EXCEPT ![t].result =
                 GetDataFromDb([db EXCEPT !.now = rc[t].call], rc[t].freq, registry)]
    /\ calls' = [calls EXCEPT ![rc[t].call].raised =
                                  db.news.state = "fails" \/ db.rss.state = "fails",
                              ![rc[t].call].key.db = db_mtime,
                              ![rc[t].call].queried = TRUE]
    /\ pc' = [pc EXCEPT ![t] = "rc_order"]
    /\ UNCHANGED <<unusedInServer, db, registry, cache, cache_lock, frequency_cache,
                   freq_file, db_mtime, html, watch, crawl_status, crawls, request>>

\* Lines 718-720 and 733-737: the fallback.  Without index.html it has
\* nothing either and refresh_cache returns False; reading a page that is
\* there may raise (read_text, line 319), which the except clause of line
\* 733 turns into the return of False as well.
ParseIndexHtml(t) ==
    /\ pc[t] = "rc_fallback"
    /\ \/ /\ html.exists
          /\ frequency_cache' = LoadedFrequencyCache
          /\ rc' = [rc EXCEPT ![t].result =
                       ParseIndexHtmlPage(html,
                           [word_groups |-> frequency_cache'.word_groups,
                            filter_words |-> frequency_cache'.filter_words,
                            global_filters |-> frequency_cache'.global_filters],
                           registry)]
          /\ pc' = [pc EXCEPT ![t] = "rc_order"]
          /\ calls' = [calls EXCEPT ![rc[t].call].key =
                          [db |-> db_mtime, freq |-> frequency_cache'.last_modified]]
       \/ /\ rc' = [rc EXCEPT ![t].ret = FALSE]
          /\ pc' = [pc EXCEPT ![t] = "rc_return"]
          /\ calls' = [calls EXCEPT ![rc[t].call].ret = "false"]
          /\ frequency_cache' = frequency_cache
    /\ UNCHANGED <<unusedInServer, db, registry, cache, cache_lock,
                   freq_file, db_mtime, html, watch, crawl_status, crawls, request>>

\* Line 724.
ApplyOrder(t) ==
    /\ pc[t] = "rc_order"
    /\ rc' = [rc EXCEPT ![t].result.topics =
                 ApplyTopicsOrder(rc[t].result.topics, registry.topics_order)]
    /\ pc' = [pc EXCEPT ![t] = "rc_lock"]
    /\ UNCHANGED <<unusedInServer, db, registry, cache, cache_lock, frequency_cache,
                   freq_file, db_mtime, html, watch, crawl_status, crawls, request,
                   calls>>

\* A refresh that does not wait for cache_lock.
WriterMayEnterUnlocked(t) == TRUE

\* `with cache_lock:` of refresh_cache (line 725) blocks while the lock is held.
WriterMayEnter(t) == cache_lock = "none"

\* `with cache_lock:` of do_GET (lines 1202, 1206, 1210).
ReaderMayEnter(t) == cache_lock = "none"

AcquireLock(t) ==
    /\ pc[t] = "rc_lock"
    /\ WriterMayEnter(t)
    /\ cache_lock' = t
    /\ rc' = [rc EXCEPT ![t].next = 1]
    /\ pc' = [pc EXCEPT ![t] = "rc_write"]
    /\ UNCHANGED <<unusedInServer, db, registry, cache, frequency_cache, freq_file,
                   db_mtime, html, watch, crawl_status, crawls, request, calls>>

\* The assignments of lines 726-730, in their order.
CacheFields == <<"update_time", "topics", "sources", "last_modified", "cache_time">>

\* What refresh_cache assigns to a field; the two clock readings (time.time()
\* and datetime.now()) are named by the call that reads them.
InstalledValue(t, field) ==
    IF field = "update_time" THEN rc[t].result.update_time
    ELSE IF field = "topics" THEN rc[t].result.topics
    ELSE IF field = "sources" THEN rc[t].result.sources
    ELSE rc[t].call

InstallField(t) ==
    /\ pc[t] = "rc_write"
    /\ LET field == CacheFields[rc[t].next]
       IN  cache' = [cache EXCEPT ![field] =
                        [value |-> InstalledValue(t, field), by |-> rc[t].call]]
    /\ IF rc[t].next = Len(CacheFields)
       THEN /\ pc' = [pc EXCEPT ![t] = "rc_unlock"]
            /\ rc' = rc
       ELSE /\ pc' = pc
            /\ rc' = [rc EXCEPT ![t].next = @ + 1]
    /\ calls' = [calls EXCEPT ![rc[t].call].installed = @ + 1]
    /\ UNCHANGED <<unusedInServer, db, registry, cache_lock, frequency_cache,
                   freq_file, db_mtime, html, watch, crawl_status, crawls, request>>

\* A with block that leaves the lock with the thread.
LockKept(t) == t

\* The holder of cache_lock after the with block of thread t (line 730).
LockAfterWith(t) == "none"

\* A refresh that falls through to the `return False` of line 737.
ReturnFallsThrough == FALSE

\* `return True` (line 732).
ReturnAfterInstall == TRUE

\* The end of the with block, and the return of line 732.
ReleaseLock(t) ==
    /\ pc[t] = "rc_unlock"
    /\ cache_lock' = LockAfterWith(t)
    /\ rc' = [rc EXCEPT ![t].ret = ReturnAfterInstall]
    /\ calls' = [calls EXCEPT ![rc[t].call].ret =
                    IF ReturnAfterInstall THEN "true" ELSE "false"]
    /\ pc' = [pc EXCEPT ![t] = "rc_return"]
    /\ UNCHANGED <<unusedInServer, db, registry, cache, frequency_cache, freq_file,
                   db_mtime, html, watch, crawl_status, crawls, request>>

\* Where the caller goes on.
ReturnTo(from) ==
    IF from = "startup" THEN "start_watcher"
    ELSE IF from = "api_refresh" THEN "refresh_send"
    ELSE IF from = "post_freq" THEN "post_send"
    ELSE "watch_check"

\* refresh_cache returns; main() and watch_file drop the value.
RefreshReturn(t) ==
    /\ pc[t] = "rc_return"
    /\ pc' = [pc EXCEPT ![t] = ReturnTo(rc[t].from)]
    /\ rc' = IF rc[t].from \in {"startup", "watch"}
             THEN [rc EXCEPT ![t] = RcIdle]
             ELSE [rc EXCEPT ![t] = [RcIdle EXCEPT !.ret = rc[t].ret]]
    /\ UNCHANGED <<unusedInServer, db, registry, cache, cache_lock, frequency_cache,
                   freq_file, db_mtime, html, watch, crawl_status, crawls, request,
                   calls>>

\* main(), line 1441.
Startup ==
    /\ pc["main"] = "startup"
    /\ RefreshEnter("main", "startup")
    /\ UNCHANGED <<unusedInServer, db, registry, cache, cache_lock, frequency_cache,
                   freq_file, db_mtime, html, watch, crawl_status, crawls, request>>

\* main(), lines 1444-1453.
StartWatcher ==
    /\ pc["main"] = "start_watcher"
    /\ pc' = [pc EXCEPT !["main"] = "idle", !["watcher"] = "watch_check"]
    /\ UNCHANGED <<unusedInServer, db, registry, cache, cache_lock, frequency_cache,
                   freq_file, db_mtime, html, rc, watch, crawl_status, crawls,
                   request, calls>>

\* Lines 795-797: today's database exists and is newer than the watcher's
\* last_db_mtime.
DbChanged == db.news.state # "absent" /\ db_mtime > watch.last_db_mtime

\* Lines 802-804: the configuration file is newer than the watcher's
\* last_freq_mtime.
FreqChanged == freq_file.mtime > watch.last_freq_mtime

\* need_refresh at line 811.
NeedRefresh == DbChanged \/ FreqChanged

\* One pass of the loop of watch_file; time.sleep(5) separates the passes.
WatchCheck ==
    /\ pc["watcher"] = "watch_check"
    /\ LET db_changed == DbChanged
           freq_changed == FreqChanged
       IN  /\ watch' = [last_db_mtime |-> IF db_changed THEN db_mtime
                                          ELSE watch.last_db_mtime,
                        last_freq_mtime |-> IF freq_changed THEN freq_file.mtime
                                            ELSE watch.last_freq_mtime]
           /\ frequency_cache' = IF freq_changed
                                 THEN [frequency_cache EXCEPT !.last_modified = 0]
                                 ELSE frequency_cache
           /\ IF NeedRefresh
              THEN RefreshEnter("watcher", "watch")
              ELSE UNCHANGED <<pc, rc, calls>>
    /\ UNCHANGED <<unusedInServer, db, registry, cache, cache_lock, freq_file,
                   db_mtime, html, crawl_status, crawls, request>>

ReaderKinds == {"topics", "sources", "status"}

\* The cache fields a reader's response is built from, in reading order
\* (lines 1203, 1207, 1211-1218).
ReaderFields(kind) ==
    IF kind = "topics" THEN <<"update_time", "topics", "cache_time">>
    ELSE IF kind = "sources" THEN <<"update_time", "sources", "cache_time">>
    ELSE <<"update_time", "topics", "sources", "cache_time">>

NotRead == [value |-> 0, by |-> -1]

EmptyResponse ==
    [update_time |-> NotRead, topics |-> NotRead, sources |-> NotRead,
     cache_time |-> NotRead]

\* do_GET of /api/topics, /api/sources or /api/status begins.
BeginRead(kind) ==
    /\ pc["main"] = "idle"
    /\ request' = [kind |-> kind, state |-> "pending", next |-> 1, resp |-> EmptyResponse]
    /\ pc' = [pc EXCEPT !["main"] = "rd_lock"]
    /\ UNCHANGED <<unusedInServer, db, registry, cache, cache_lock, frequency_cache,
                   freq_file, db_mtime, html, rc, watch, crawl_status, crawls, calls>>

ReadLock ==
    /\ pc["main"] = "rd_lock"
    /\ ReaderMayEnter("main")
    /\ cache_lock' = "main"
    /\ pc' = [pc EXCEPT !["main"] = "rd_field"]
    /\ UNCHANGED <<unusedInServer, db, registry, cache, frequency_cache, freq_file,
                   db_mtime, html, rc, watch, crawl_status, crawls, request, calls>>

\* What the response carries of a field: /api/status sends the lengths.
ResponseValue(kind, field) ==
    IF kind = "status" /\ field \in {"topics", "sources"}
    THEN [value |-> Len(cache[field].value), by |-> cache[field].by]
    ELSE cache[field]

\* One cache[...] of the dict display handed to send_json.
ReadField ==
    /\ pc["main"] = "rd_field"
    /\ LET fields == ReaderFields(request.kind)
           field == fields[request.next]
       IN  /\ request' = [request EXCEPT
                             !.resp[field] = ResponseValue(request.kind, field),
                             !.next = @ + 1]
           /\ pc' = [pc EXCEPT !["main"] =
                        IF request.next = Len(fields) THEN "rd_send" ELSE "rd_field"]
    /\ UNCHANGED <<unusedInServer, db, registry, cache, cache_lock, frequency_cache,
                   freq_file, db_mtime, html, rc, watch, crawl_status, crawls, calls>>

\* send_json inside the with block: the response leaves, then the lock is
\* released.
ReadSend ==
    /\ pc["main"] = "rd_send"
    /\ request' = NoRequest
    /\ cache_lock' = "none"
    /\ pc' = [pc EXCEPT !["main"] = "idle"]
    /\ UNCHANGED <<unusedInServer, db, registry, cache, frequency_cache, freq_file,
                   db_mtime, html, rc, watch, crawl_status, crawls, calls>>

\* do_GET of /api/refresh, line 1221.
BeginRefresh ==
    /\ pc["main"] = "idle"
    /\ RefreshEnter("main", "api_refresh")
    /\ request' = [kind |-> "refresh", state |-> "pending", next |-> 0, resp |-> <<>>]
    /\ UNCHANGED <<unusedInServer, db, registry, cache, cache_lock, frequency_cache,
                   freq_file, db_mtime, html, watch, crawl_status, crawls>>

\* Line 1222: {"success": success, "cache_time": cache["cache_time"]} is
\* sent, the field read without the lock.
RefreshSend ==
    /\ pc["main"] = "refresh_send"
    /\ request' = NoRequest
    /\ rc' = [rc EXCEPT !["main"] = RcIdle]
    /\ pc' = [pc EXCEPT !["main"] = "idle"]
    /\ UNCHANGED <<unusedInServer, db, registry, cache, cache_lock, frequency_cache,
                   freq_file, db_mtime, html, watch, crawl_status, crawls, calls>>

\* The crawler runs (cron, or the subprocess of run_crawl) and the news
\* database watch_file looks at (lines 794-796) changes.
DatabaseWritten ==
    /\ CrawlerWrites
    /\ UNCHANGED <<unusedInServer, registry, cache, cache_lock, frequency_cache,
                   freq_file, html, pc, rc, watch, crawl_status, crawls, request,
                   calls>>

\* do_POST of /api/config/frequency_words, lines 1323-1331: the file is
\* written.  The refresh_cache call of line 1335 is numbered here.
PostFrequencyWords ==
    /\ pc["main"] = "idle"
    /\ freq_file.mtime <= MaxConfigWrites
    /\ Len(calls) < MaxCalls
    /\ freq_file' = [mtime |-> freq_file.mtime + 1, content |-> PostedConfigText]
    /\ calls' = Append(calls, NewCall)
    /\ rc' = [rc EXCEPT !["main"] =
                 [RcIdle EXCEPT !.call = Len(calls) + 1, !.from = "post_freq"]]
    /\ request' = [kind |-> "post_freq", state |-> "pending", next |-> 0, resp |-> <<>>]
    /\ pc' = [pc EXCEPT !["main"] = "post_reset"]
    /\ UNCHANGED <<unusedInServer, db, registry, cache, cache_lock, frequency_cache,
                   db_mtime, html, watch, crawl_status, crawls>>

\* Lines 1333-1335.
PostReset ==
    /\ pc["main"] = "post_reset"
    /\ frequency_cache' = [frequency_cache EXCEPT !.last_modified = 0]
    /\ pc' = [pc EXCEPT !["main"] = "rc_exists"]
    /\ UNCHANGED <<unusedInServer, db, registry, cache, cache_lock, freq_file,
                   db_mtime, html, rc, watch, crawl_status, crawls, request, calls>>

\* Line 1336.
PostSend ==
    /\ pc["main"] = "post_send"
    /\ request' = NoRequest
    /\ rc' = [rc EXCEPT !["main"] = RcIdle]
    /\ pc' = [pc EXCEPT !["main"] = "idle"]
    /\ UNCHANGED <<unusedInServer, db, registry, cache, cache_lock, frequency_cache,
                   freq_file, db_mtime, html, watch, crawl_status, crawls, calls>>

Next ==
    \/ Startup
    \/ StartWatcher
    \/ WatchCheck
    \/ \E t \in Threads : GetDataExists(t)
    \/ \E t \in Threads : GetDataLoadConfig(t)
    \/ \E t \in Threads : GetDataQuery(t)
    \/ \E t \in Threads : ParseIndexHtml(t)
    \/ \E t \in Threads : ApplyOrder(t)
    \/ \E t \in Threads : AcquireLock(t)
    \/ \E t \in Threads : InstallField(t)
    \/ \E t \in Threads : ReleaseLock(t)
    \/ \E t \in Threads : RefreshReturn(t)
    \/ \E kind \in ReaderKinds : BeginRead(kind)
    \/ ReadLock
    \/ ReadField
    \/ ReadSend
    \/ BeginRefresh
    \/ RefreshSend
    \/ DatabaseWritten
    \/ PostFrequencyWords
    \/ PostReset
    \/ PostSend

Spec == Init /\ [][Next]_vars

(***************************************************************************)
(* The server with a database from the start and no reader requests        *)
(* (SpecQuiet), and with its threads scheduled fairly (SpecQuietLive): a   *)
(* thread that can take a step of refresh_cache or of its loop eventually  *)
(* takes it.  Clients and the crawler are under no obligation.             *)
(***************************************************************************)
InitQuiet ==
    /\ Init
    /\ db.news.state = "ok"
    /\ html = NoPage

\* The steps of thread t inside refresh_cache.
RefreshStep(t) ==
    \/ GetDataExists(t)
    \/ GetDataLoadConfig(t)
    \/ GetDataQuery(t)
    \/ ApplyOrder(t)
    \/ AcquireLock(t)
    \/ InstallField(t)
    \/ ReleaseLock(t)
    \/ RefreshReturn(t)

\* The steps the main thread takes on its own once a request is in.
MainStep == Startup \/ StartWatcher \/ RefreshSend \/ PostReset \/ PostSend

NextQuiet ==
    \/ MainStep
    \/ WatchCheck
    \/ \E t \in Threads : RefreshStep(t)
    \/ BeginRefresh
    \/ DatabaseWritten
    \/ PostFrequencyWords

SpecQuiet == InitQuiet /\ [][NextQuiet]_vars

\* The steps of refresh_cache other than the parse and the query.
RefreshShortStep(t) ==
    \/ GetDataExists(t)
    \/ ApplyOrder(t)
    \/ AcquireLock(t)
    \/ InstallField(t)
    \/ ReleaseLock(t)
    \/ RefreshReturn(t)

\* GetDataLoadConfig(t) and GetDataQuery(t) are enabled exactly while thread
\* t stands at rc_load or rc_query and each moves it on, so weak fairness of
\* the two is that the thread is again and again at neither place.
SpecQuietLive ==
    /\ SpecQuiet
    /\ WF_vars(MainStep)
    /\ WF_vars(WatchCheck)
    /\ \A t \in Threads : WF_vars(RefreshShortStep(t))
    /\ \A t \in Threads : []<>(pc[t] \notin {"rc_load", "rc_query"})

(***************************************************************************)
(* Topic-order runs (SpecTopicsOrder): apply_topics_order is applied to    *)
(* the empty buckets of the word groups under every saved order of up to   *)
(* MaxSavedTopics entries.                                                 *)
(***************************************************************************)
MaxSavedTopics == 2

\* The entries a client may have saved: the topics T1 and T2 and a topic T9
\* the configuration no longer has, each enabled or not.
SavedEntries ==
    { [name |-> n, enabled |-> on] :
        n \in { <<"T", "1">>, <<"T", "2">>, <<"T", "9">> }, on \in BOOLEAN }

\* The topics get_data_from_db returns for stores without rows.
TopicsOf(f) ==
    LET topics == InitTopics(f.word_groups)
    IN  [i \in DOMAIN topics |-> FinishTopic(topics[i])]

InitTopicsOrder ==
    /\ SettingsUnused
    /\ MatcherUnused
    /\ ServerUnused
    /\ db = NoDb
    /\ freq \in { AggFreq, SameNameFreq }
    /\ registry \in { [platforms |-> <<>>, rss_feeds |-> <<>>, topics_order |-> o] :
                         o \in SeqsUpTo(SavedEntries, MaxSavedTopics) }
    /\ view = [ok |-> TRUE, update_time |-> [from |-> "clock", at |-> 0],
               topics |-> TopicsOf(freq), sources |-> <<>>]
    /\ apc = "input"

\* The call of apply_topics_order (line 724).
OrderTopics ==
    /\ apc = "input"
    /\ view' = [view EXCEPT !.topics = ApplyTopicsOrder(@, registry.topics_order)]
    /\ apc' = "done"
    /\ UNCHANGED <<db, freq, registry, matcherVars, srvVars, settingsVars>>

NextTopicsOrder == OrderTopics

SpecTopicsOrder == InitTopicsOrder /\ [][NextTopicsOrder]_vars

(***************************************************************************)
(* Settings: get_user_settings, save_user_settings, get_combined_config.   *)
(*                                                                         *)
(* A settings dict is a function from its keys to their values; a platform *)
(* entry is [id, name, enabled] where name is <<>> for a dict without the  *)
(* key 'name' and enabled is "absent" for a dict without the key 'enabled'.*)
(***************************************************************************)
NoName == <<>>

\* up['enabled'] = True / cp['enabled'] = True when the key is missing
\* (lines 206-207 and 214-215).
EnabledOrTrue(p) == [p EXCEPT !.enabled = IF @ = "absent" THEN "true" ELSE @]

\* [p['id'] for p in user_platforms] (line 197) as a set.
IdsOf(entries) == { entries[i].id : i \in DOMAIN entries }

\* Lines 203-216: the user's entries, then the config entries whose id the
\* user settings do not list.
MergedPlatforms(user_platforms, config_platforms) ==
    [i \in DOMAIN user_platforms |-> EnabledOrTrue(user_platforms[i])]
    \o [i \in DOMAIN SelectSeq(config_platforms, LAMBDA cp : cp.id \notin IdsOf(user_platforms)) |->
          EnabledOrTrue(SelectSeq(config_platforms,
                                LAMBDA cp : cp.id \notin IdsOf(user_platforms))[i])]

\* p.get('name', pid) / cp.get('name', cp['id'])
NameOrId(p) == IF p.name = NoName THEN IdAsName(p.id) ELSE p.name

\* A merge that leaves each entry the name it came with.
UnifiedNameKept(p, config_platforms) == NameOrId(p)

\* config_platforms_map.get(pid, p.get('name', pid)) (lines 219, 226): the
\* dict comprehension keeps the last config entry of an id.
UnifiedName(p, config_platforms) ==
    IF LastIndexOf(config_platforms, p.id) # 0
    THEN NameOrId(config_platforms[LastIndexOf(config_platforms, p.id)])
    ELSE NameOrId(p)

\* Lines 220-228: the first entry of each id, renamed.
RECURSIVE UnifyPlatforms(_, _, _)
UnifyPlatforms(merged, config_platforms, unified) ==
    IF merged = <<>>
    THEN unified
    ELSE IF Head(merged).id \in IdsOf(unified)
    THEN UnifyPlatforms(Tail(merged), config_platforms, unified)
    ELSE UnifyPlatforms(Tail(merged), config_platforms,
                        Append(unified, [Head(merged) EXCEPT
                                            !.name = UnifiedName(Head(merged), config_platforms)]))

\* Lines 230-237: config entries still missing are appended enabled.
RECURSIVE FillFromConfig(_, _)
FillFromConfig(unified, config_platforms) ==
    IF config_platforms = <<>>
    THEN unified
    ELSE IF Head(config_platforms).id \in IdsOf(unified)
    THEN FillFromConfig(unified, Tail(config_platforms))
    ELSE FillFromConfig(Append(unified, [id |-> Head(config_platforms).id,
                                         name |-> NameOrId(Head(config_platforms)),
                                         enabled |-> "true"]),
                        Tail(config_platforms))

\* config['platforms'] of get_combined_config when user_settings has the key
\* 'platforms' (lines 194-238).
UnifiedPlatforms(user_platforms, config_platforms) ==
    FillFromConfig(UnifyPlatforms(MergedPlatforms(user_platforms, config_platforms),
                                  config_platforms, <<>>),
                   config_platforms)

\* dict.update / d[key] = value
DictUpdate(d, u) ==
    [k \in DOMAIN d \cup DOMAIN u |-> IF k \in DOMAIN u THEN u[k] ELSE d[k]]

(***************************************************************************)
(* Merge runs (SpecMerge): get_combined_config is applied to every         *)
(* config.yaml and stored platform list of up to MaxPlatforms entries.     *)
(***************************************************************************)
MaxPlatforms == 2

ConfigEntries ==
    { [id |-> i, name |-> n, enabled |-> e] :
        i \in {"p1", "p2"}, n \in {NoName, <<"cfg">>}, e \in {"absent", "false"} }

UserEntries ==
    { [id |-> i, name |-> <<"usr">>, enabled |-> e] :
        i \in {"p1", "p2"}, e \in {"absent", "true", "false"} }

InitMerge ==
    /\ MatcherUnused
    /\ AggUnused
    /\ ServerUnused
    /\ config_yaml \in SeqsUpTo(ConfigEntries, MaxPlatforms)
    /\ user_settings_file \in
          { [k \in {"platforms"} |-> u] : u \in SeqsUpTo(UserEntries, MaxPlatforms) }
    /\ sv = SvIdle
    /\ gc = [GcIdle EXCEPT !.pc = "input"]
    /\ saves = <<>>
    /\ lf = [t \in Threads |-> LfIdle]

\* A call of get_combined_config with the key 'platforms' stored (lines
\* 185-241): the merge, and the write-back when the list grew or shrank.
Merge ==
    /\ gc.pc = "input"
    /\ "platforms" \in DOMAIN user_settings_file
    /\ LET unified == UnifiedPlatforms(user_settings_file["platforms"], config_yaml)
       IN  /\ gc' = [pc |-> "done", user_settings |-> user_settings_file,
                     platforms |-> unified, current_settings |-> user_settings_file]
           /\ user_settings_file' =
                 IF Len(user_settings_file["platforms"]) # Len(unified)
                 THEN DictUpdate(user_settings_file, [k \in {"platforms"} |-> unified])
                 ELSE user_settings_file
    /\ UNCHANGED <<config_yaml, sv, saves, lf, matcherVars, aggVars, srvVars>>

NextMerge == Merge

SpecMerge == InitMerge /\ [][NextMerge]_vars

(***************************************************************************)
(* Settings runs (SpecSettings): a handler saves settings with             *)
(* save_user_settings while the watcher's refresh runs get_combined_config,*)
(* each read and each write of user_settings.json a step of its own.       *)
(***************************************************************************)
MaxSaves == 2

SettingsConfig == <<[id |-> "p1", name |-> <<"cfg">>, enabled |-> "absent"]>>

\* The dicts a handler hands to save_user_settings (lines 1347, 1385, 1398).
PostedSettings ==
    { [k \in {"topics_order"} |-> <<"T1">>],
      [k \in {"ui_tabs"} |-> <<"news">>],
      [k \in {"platforms"} |-> <<[id |-> "p1", name |-> <<"cfg">>, enabled |-> "false"]>>] }

\* Lines 249-262: the platform list seeded from config.yaml.
SeededPlatforms(config_platforms) ==
    [i \in DOMAIN config_platforms |->
        [id |-> config_platforms[i].id,
         name |-> NameOrId(config_platforms[i]),
         enabled |-> EnabledOrTrue(config_platforms[i]).enabled]]

\* current_settings.get('platforms') is missing or empty (line 267).
NoPlatformsIn(settings) ==
    "platforms" \notin DOMAIN settings \/ settings["platforms"] = <<>>

unusedInSettings == <<matcherVars, aggVars, srvVars, config_yaml, lf>>

InitSettings ==
    /\ MatcherUnused
    /\ AggUnused
    /\ ServerUnused
    /\ config_yaml = SettingsConfig
    /\ user_settings_file \in { <<>>, [k \in {"platforms"} |-> <<>>] }
    /\ sv = [SvIdle EXCEPT !.pc = "idle"]
    /\ gc = [GcIdle EXCEPT !.pc = "idle"]
    /\ saves = <<>>
    /\ lf = [t \in Threads |-> LfIdle]

\* save_user_settings, line 122: current_settings = get_user_settings().
SaveRead ==
    /\ sv.pc = "idle"
    /\ Len(saves) < MaxSaves
    /\ \E settings \in PostedSettings :
          sv' = [pc |-> "sv_write", settings |-> settings,
                 current_settings |-> user_settings_file]
    /\ UNCHANGED <<unusedInSettings, user_settings_file, gc, saves>>

\* Lines 123-125: update, write_text, return True.
SaveWrite ==
    /\ sv.pc = "sv_write"
    /\ user_settings_file' = DictUpdate(sv.current_settings, sv.settings)
    /\ saves' = Append(saves, sv.settings)
    /\ sv' = [sv EXCEPT !.pc = "idle"]
    /\ UNCHANGED <<unusedInSettings, gc>>

\* get_combined_config, lines 195-238 and 249-262: the settings are read
\* and the platform list is merged, or seeded when none is stored.
CombineRead ==
    /\ gc.pc = "idle"
    /\ IF "platforms" \in DOMAIN user_settings_file
       THEN LET unified == UnifiedPlatforms(user_settings_file["platforms"], config_yaml)
            IN  gc' = [gc EXCEPT !.user_settings = user_settings_file,
                                 !.platforms = unified,
                                 !.pc = IF Len(user_settings_file["platforms"]) # Len(unified)
                                        THEN "gc_repair" ELSE "idle"]
       ELSE gc' = [gc EXCEPT !.user_settings = user_settings_file,
                             !.platforms = SeededPlatforms(config_yaml),
                             !.pc = IF SeededPlatforms(config_yaml) # <<>>
                                    THEN "gc_seed" ELSE "idle"]
    /\ UNCHANGED <<unusedInSettings, user_settings_file, sv, saves>>

\* Line 245 / line 266: current_settings = get_user_settings() again.
CombineReread ==
    /\ gc.pc \in {"gc_repair", "gc_seed"}
    /\ gc' = [gc EXCEPT !.current_settings = user_settings_file,
                        !.pc = IF gc.pc = "gc_repair" THEN "gc_write"
                               ELSE IF NoPlatformsIn(user_settings_file) THEN "gc_write"
                               ELSE "idle"]
    /\ UNCHANGED <<unusedInSettings, user_settings_file, sv, saves>>

\* Lines 246-247 / 268-269: the write-back of the platform list.
CombineWrite ==
    /\ gc.pc = "gc_write"
    /\ user_settings_file' =
          DictUpdate(gc.current_settings, [k \in {"platforms"} |-> gc.platforms])
    /\ gc' = [gc EXCEPT !.pc = "idle"]
    /\ UNCHANGED <<unusedInSettings, sv, saves>>

NextSettings == SaveRead \/ SaveWrite \/ CombineRead \/ CombineReread \/ CombineWrite

SpecSettings == InitSettings /\ [][NextSettings]_vars

(***************************************************************************)
(* Configuration loads (SpecLoad): load_frequency_config step by step.  A  *)
(* handler saves a new frequency_words.txt, resets frequency_cache and     *)
(* refreshes, while the watcher notices the change, resets and refreshes   *)
(* as well.  Each assignment to and each read of a field of the shared     *)
(* dict frequency_cache is a step of its own: no lock covers them.         *)
(***************************************************************************)
MaxPosts == 1

LoadTextOld == <<"a","\n","!","x","\n","\n","[","G","L","O","B","A","L","_","F","I","L","T","E","R","]","\n","u">>

LoadTextNew == <<"b","\n","!","y","\n","\n","[","G","L","O","B","A","L","_","F","I","L","T","E","R","]","\n","v">>

LoadTexts == { LoadTextOld, LoadTextNew }

unusedInLoad ==
    <<matcherVars, aggVars, cache, cache_lock, db_mtime, html, pc, rc, crawl_status,
      crawls, request, calls, config_yaml, user_settings_file, sv, gc, saves>>

InitLoad ==
    /\ MatcherUnused
    /\ AggUnused
    /\ cache = CacheInit
    /\ cache_lock = "none"
    /\ db_mtime = 0
    /\ html = NoPage
    /\ pc = [t \in Threads |-> "unused"]
    /\ rc = [t \in Threads |-> RcIdle]
    /\ crawl_status = CrawlStatusInit
    /\ crawls = <<>>
    /\ request = NoRequest
    /\ calls = <<>>
    /\ config_yaml = <<>>
    /\ user_settings_file = <<>>
    /\ sv = SvIdle
    /\ gc = GcIdle
    /\ saves = <<>>
    /\ freq_file = [mtime |-> 1, content |-> LoadTextOld]
    /\ frequency_cache = FrequencyCacheInit
    /\ watch = [last_db_mtime |-> 0, last_freq_mtime |-> 0]
    /\ lf = [t \in Threads |-> [LfIdle EXCEPT !.pc = "idle"]]

\* do_POST, lines 1321-1331: the handler writes the posted text.
LoadPostWrite ==
    /\ lf["main"].pc \in {"idle", "lf_done"}
    /\ lf["main"].posts < MaxPosts
    /\ \E text \in LoadTexts \ {freq_file.content} :
          freq_file' = [mtime |-> freq_file.mtime + 1, content |-> text]
    /\ lf' = [lf EXCEPT !["main"].pc = "reset", !["main"].posts = @ + 1]
    /\ UNCHANGED <<unusedInLoad, frequency_cache, watch>>

\* watch_file, lines 802-806: the watcher sees a newer mtime.
LoadWatchCheck ==
    /\ lf["watcher"].pc \in {"idle", "lf_done"}
    /\ freq_file.mtime > watch.last_freq_mtime
    /\ watch' = [watch EXCEPT !.last_freq_mtime = freq_file.mtime]
    /\ lf' = [lf EXCEPT !["watcher"].pc = "reset"]
    /\ UNCHANGED <<unusedInLoad, freq_file, frequency_cache>>

\* frequency_cache["last_modified"] = 0 (lines 809 and 1333); refresh_cache
\* follows and reaches load_frequency_config.
LoadReset(t) ==
    /\ lf[t].pc = "reset"
    /\ frequency_cache' = [frequency_cache EXCEPT !.last_modified = 0]
    /\ lf' = [lf EXCEPT ![t].pc = "lf_stat"]
    /\ UNCHANGED <<unusedInLoad, freq_file, watch>>

\* Lines 92-93: stat, and the comparison with the cached mtime.
LoadStat(t) ==
    /\ lf[t].pc = "lf_stat"
    /\ lf' = [lf EXCEPT ![t].current_mtime = freq_file.mtime,
                        ![t].pc = IF freq_file.mtime > frequency_cache.last_modified
                                  THEN "lf_parse" ELSE "lf_get_1"]
    /\ UNCHANGED <<unusedInLoad, freq_file, frequency_cache, watch>>

\* Line 94: the file is read and parsed.
LoadParse(t) ==
    /\ lf[t].pc = "lf_parse"
    /\ lf' = [lf EXCEPT ![t].parsed =
                            [k \in DOMAIN NoParse |->
                                LoadFrequencyWordsExtended(freq_file.content)[k]],
                        ![t].pc = "lf_set_1"]
    /\ UNCHANGED <<unusedInLoad, freq_file, frequency_cache, watch>>

\* Lines 95-98: the four assignments, one at a time.
LoadSet(t) ==
    /\ \/ /\ lf[t].pc = "lf_set_1"
          /\ frequency_cache' = [frequency_cache EXCEPT !.word_groups = lf[t].parsed.groups]
          /\ lf' = [lf EXCEPT ![t].pc = "lf_set_2"]
       \/ /\ lf[t].pc = "lf_set_2"
          /\ frequency_cache' = [frequency_cache EXCEPT !.filter_words = lf[t].parsed.filter_words]
          /\ lf' = [lf EXCEPT ![t].pc = "lf_set_3"]
       \/ /\ lf[t].pc = "lf_set_3"
          /\ frequency_cache' = [frequency_cache EXCEPT !.global_filters = lf[t].parsed.global_filters]
          /\ lf' = [lf EXCEPT ![t].pc = "lf_set_4"]
       \/ /\ lf[t].pc = "lf_set_4"
          /\ frequency_cache' = [frequency_cache EXCEPT !.last_modified = lf[t].current_mtime]
          /\ lf' = [lf EXCEPT ![t].pc = "lf_get_1"]
    /\ UNCHANGED <<unusedInLoad, freq_file, watch>>

\* Line 106: the three reads of the return statement, one at a time.
LoadGet(t) ==
    /\ \/ /\ lf[t].pc = "lf_get_1"
          /\ lf' = [lf EXCEPT ![t].got.groups = frequency_cache.word_groups,
                              ![t].pc = "lf_get_2"]
       \/ /\ lf[t].pc = "lf_get_2"
          /\ lf' = [lf EXCEPT ![t].got.filter_words = frequency_cache.filter_words,
                              ![t].pc = "lf_get_3"]
       \/ /\ lf[t].pc = "lf_get_3"
          /\ lf' = [lf EXCEPT ![t].got.global_filters = frequency_cache.global_filters,
                              ![t].pc = "lf_done"]
    /\ UNCHANGED <<unusedInLoad, freq_file, frequency_cache, watch>>

NextLoad ==
    \/ LoadPostWrite
    \/ LoadWatchCheck
    \/ \E t \in Threads : LoadReset(t)
    \/ \E t \in Threads : LoadStat(t)
    \/ \E t \in Threads : LoadParse(t)
    \/ \E t \in Threads : LoadSet(t)
    \/ \E t \in Threads : LoadGet(t)

SpecLoad == InitLoad /\ [][NextLoad]_vars

(***************************************************************************)
(* Manual crawls (SpecCrawl): the main thread serves /api/crawl requests   *)
(* one after another, every accepted one starts a run_crawl thread.        *)
(***************************************************************************)
\* The variables run_crawl and trigger_crawl do not touch.
unusedInCrawl ==
    <<matcherVars, freq, view, apc, registry, cache, cache_lock, frequency_cache,
      freq_file, html, pc, rc, watch, calls, settingsVars>>

InitCrawl ==
    /\ SettingsUnused
    /\ MatcherUnused
    /\ freq = NoFreq
    /\ view = NoData
    /\ apc = "unused"
    /\ registry = NoRegistry
    /\ db \in InitDbs
    /\ db_mtime = IF db.news.state = "absent" THEN 0 ELSE 1
    /\ cache = CacheInit
    /\ cache_lock = "none"
    /\ frequency_cache = FrequencyCacheInit
    /\ freq_file = [mtime |-> 0, content |-> NoText]
    /\ html = NoPage
    /\ pc = [t \in Threads |-> IF t = "main" THEN "idle" ELSE "unused"]
    /\ rc = [t \in Threads |-> RcIdle]
    /\ watch = [last_db_mtime |-> 0, last_freq_mtime |-> 0]
    /\ crawl_status = CrawlStatusInit
    /\ crawls = <<>>
    /\ request = NoRequest
    /\ calls = <<>>

\* The guard of trigger_crawl (line 848): a crawl is accepted.
CrawlAccepted == ~crawl_status.running

\* do_GET of /api/crawl: trigger_crawl (lines 848-849 and 879-880) and the
\* response of line 1226.
TriggerCrawl ==
    /\ pc["main"] = "idle"
    /\ IF ~CrawlAccepted
       THEN /\ request' = [kind |-> "crawl", state |-> "sent", next |-> 0,
                           resp |-> [success |-> FALSE]]
            /\ crawls' = crawls
       ELSE /\ Len(crawls) < MaxCrawls
            /\ request' = [kind |-> "crawl", state |-> "sent", next |-> 0,
                           resp |-> [success |-> TRUE]]
            /\ crawls' = Append(crawls, "spawned")
    /\ UNCHANGED <<unusedInCrawl, db, db_mtime, crawl_status>>

\* run_crawl, lines 852-854.
RunCrawlStart(i) ==
    /\ crawls[i] = "spawned"
    /\ crawl_status' = [crawl_status EXCEPT !.running = TRUE, !.message = "running"]
    /\ crawls' = [crawls EXCEPT ![i] = "subprocess"]
    /\ UNCHANGED <<unusedInCrawl, db, db_mtime, request>>

\* How subprocess.run ends and the message recorded for it: return code 0
\* (line 864), another return code (867), TimeoutExpired after 300 seconds
\* (870), any other exception (873).
CrawlOutcomes == {"done", "failed", "timeout", "error"}

\* subprocess.run and the branch taken after it (lines 856-874): a crawler
\* that exits with 0 has written today's news database, the others end
\* without a write.
RunCrawlSubprocess(i) ==
    /\ crawls[i] = "subprocess"
    /\ \E outcome \in CrawlOutcomes :
          /\ IF outcome = "done" THEN CrawlerWrites ELSE UNCHANGED <<db, db_mtime>>
          /\ crawl_status' = [crawl_status EXCEPT !.message = outcome]
    /\ crawls' = [crawls EXCEPT ![i] = "finally"]
    /\ UNCHANGED <<unusedInCrawl, request>>

\* A finally clause that leaves the guard set.
RunningLeftSet == TRUE

\* crawl_status["running"] as the finally clause assigns it (line 876).
RunningAfterFinally == FALSE

\* run_crawl, lines 875-877.
RunCrawlFinally(i) ==
    /\ crawls[i] = "finally"
    /\ crawl_status' = [crawl_status EXCEPT !.running = RunningAfterFinally,
                                            !.last_run = i]
    /\ crawls' = [crawls EXCEPT ![i] = "finished"]
    /\ UNCHANGED <<unusedInCrawl, db, db_mtime, request>>

NextCrawl ==
    \/ TriggerCrawl
    \/ \E i \in DOMAIN crawls : RunCrawlStart(i)
    \/ \E i \in DOMAIN crawls : RunCrawlSubprocess(i)
    \/ \E i \in DOMAIN crawls : RunCrawlFinally(i)

SpecCrawl == InitCrawl /\ [][NextCrawl]_vars

\* The steps of the i-th run_crawl thread.
CrawlThread(i) ==
    /\ i \in DOMAIN crawls
    /\ RunCrawlStart(i) \/ RunCrawlSubprocess(i) \/ RunCrawlFinally(i)

\* Every started thread keeps running: the operating system schedules it,
\* and subprocess.run returns or raises within its timeout of 300 seconds.
SpecCrawlLive ==
    SpecCrawl /\ \A i \in 1..MaxCrawls : WF_vars(CrawlThread(i))

(***************************************************************************)
(* Properties of the classifier and the parsers.                           *)
(***************************************************************************)
\* C6: whenever a global filter literal is a case-insensitive substring of
\* the title, find_matched_topics returns the empty list.
C6_GlobalFilterVeto ==
    ( /\ mpc = "matched"
      /\ \E i \in DOMAIN global_filters :
            IsSubstr(Lower(global_filters[i]), Lower(title)) )
        => matched = <<>>

\* C6 witness: a title vetoed by a global filter although a group matches it
\* and no filter word does.
C6_Witness ==
    /\ mpc = "matched"
    /\ \E i \in DOMAIN global_filters :
            IsSubstr(Lower(global_filters[i]), Lower(title))
    /\ \A i \in DOMAIN filter_words : ~WordMatches(filter_words[i], Lower(title))
    /\ \E i \in DOMAIN word_groups :
            /\ word_groups[i].normal # <<>>
            /\ word_groups[i].filter = <<>>
            /\ word_groups[i].required = <<>>
            /\ WordMatches(word_groups[i].normal[1], Lower(title))
    /\ matched = <<>>

\* The results find_matched_topics returned for the group at index gi.
ResultsFor(gi) ==
    { k \in DOMAIN matched : matched[k].topic = word_groups[gi].group_key }

\* C7: a group with a non-empty required list gets a MatchResult only if
\* every one of its required terms matches the title.
C7_RequiredAllMatch ==
    mpc = "matched" =>
        \A gi \in DOMAIN word_groups :
            (word_groups[gi].required # <<>> /\ ResultsFor(gi) # {})
                => \A k \in DOMAIN word_groups[gi].required :
                        WordMatches(word_groups[gi].required[k], Lower(title))

\* C7 witness: a group with two required terms got a MatchResult, and
\* another run skipped such a group; here the first.
C7_Witness ==
    /\ mpc = "matched"
    /\ \E gi \in DOMAIN word_groups :
            /\ Len(word_groups[gi].required) >= 2
            /\ word_groups[gi].required[1] # word_groups[gi].required[2]
            /\ ResultsFor(gi) # {}

\* The display strings of a group's required terms.
RequiredDisplays(group) == { Display(group.required[k]) : k \in DOMAIN group.required }

\* C8: every matched-terms list has at most 3 entries, and for a group with
\* required terms the required display strings come before every display
\* string that is there only because a normal term matched.
C8_AtMostThreeRequiredFirst ==
    mpc = "matched" =>
        \A gi \in DOMAIN word_groups : \A k \in ResultsFor(gi) :
            /\ Len(matched[k].matched) <= 3
            /\ word_groups[gi].required # <<>> =>
                 \A i, j \in DOMAIN matched[k].matched :
                    ( /\ matched[k].matched[i] \in RequiredDisplays(word_groups[gi])
                      /\ matched[k].matched[j] \notin RequiredDisplays(word_groups[gi]) )
                        => i < j

ScenarioC == JoinLines(<<LineRequiredChina, LineJapanKorea>>)

WordChina == <<"c","h","i","n","a">>

WordJapan == <<"j","a","p","a","n">>

WordKorea == <<"k","o","r","e","a">>

\* C10: a line holding "," or "|" is split into tokens classified one by
\* one; the group "+china / japan,korea" yields for "China trade with Japan"
\* exactly one MatchResult holding china and japan, and none for
\* "China economy".
C10_CommaLineIsSplit ==
    content = ScenarioC =>
        /\ svc_pc = "done" =>
              /\ Len(svc_groups) = 1
              /\ svc_groups[1].required = <<WordChina>>
              /\ svc_groups[1].normal = <<WordJapan, WordKorea>>
        /\ mpc # "text" =>
              /\ Len(word_groups) = 1
              /\ Len(word_groups[1].required) = 1
              /\ Len(word_groups[1].normal) = 2
        /\ (mpc = "matched" /\ title = TitleChinaJapan) =>
              /\ Len(matched) = 1
              /\ {WordChina, WordJapan} \subseteq Range(matched[1].matched)
        /\ (mpc = "matched" /\ title = TitleChinaEconomy) => matched = <<>>

(***************************************************************************)
(* Properties of an aggregation pass.                                      *)
(***************************************************************************)
\* The rows a pass reads from a store: those of a store whose query succeeds.
RowsRead(store) == IF store.state = "ok" THEN store.rows ELSE <<>>

MatchesOf(row) ==
    FindMatchedTopics(row.title, freq.word_groups, freq.filter_words, freq.global_filters)

AggregationDone == apc = "done" /\ view.ok

BucketNamed(name) == { i \in DOMAIN view.topics : view.topics[i].name = name }

\* C1: in every view of get_data_from_db, a platform or feed the registry
\* marks enabled=false has no SourceBucket, and each of its items that
\* matches a topic is still listed (by title) in that topic's TopicBucket.
C1_DisabledSourceKeptInTopics ==
    AggregationDone =>
        /\ \A k \in DOMAIN RowsRead(db.news) :
              LET row == RowsRead(db.news)[k]
              IN  ~EnabledOf(registry.platforms, row.platform_id) =>
                    /\ \A j \in DOMAIN view.sources : view.sources[j].id # row.platform_id
                    /\ \A m \in DOMAIN MatchesOf(row) :
                          \E i \in BucketNamed(MatchesOf(row)[m].topic) :
                              row.title \in Titles(view.topics[i].news)
        /\ \A k \in DOMAIN RowsRead(db.rss) :
              LET row == RowsRead(db.rss)[k]
              IN  ~EnabledOf(registry.rss_feeds, row.feed_id) =>
                    /\ \A j \in DOMAIN view.sources : view.sources[j].id # row.feed_id
                    /\ \A m \in DOMAIN MatchesOf(row) :
                          \E i \in BucketNamed(MatchesOf(row)[m].topic) :
                              row.title \in Titles(view.topics[i].rss)

NoTitleTwice(items) ==
    \A j, k \in DOMAIN items : items[j].title = items[k].title => j = k

\* Every row read from an enabled source that matched a topic is listed in
\* the SourceBucket of its source.
EnabledOccurrencesListed ==
    /\ \A k \in DOMAIN RowsRead(db.news) :
          LET row == RowsRead(db.news)[k]
          IN  (EnabledOf(registry.platforms, row.platform_id) /\ MatchesOf(row) # <<>>) =>
                \E j \in DOMAIN view.sources :
                    /\ view.sources[j].name = PlatformNameOf(registry.platforms, row)
                    /\ view.sources[j].id = row.platform_id
                    /\ \E n \in DOMAIN view.sources[j].news :
                          /\ view.sources[j].news[n].title = row.title
                          /\ view.sources[j].news[n].rank = row.rank
    /\ \A k \in DOMAIN RowsRead(db.rss) :
          LET row == RowsRead(db.rss)[k]
          IN  (EnabledOf(registry.rss_feeds, row.feed_id) /\ MatchesOf(row) # <<>>) =>
                \E j \in DOMAIN view.sources :
                    /\ view.sources[j].name = RssSourceName(db.feed_names, row.feed_id)
                    /\ view.sources[j].id = row.feed_id
                    /\ \E n \in DOMAIN view.sources[j].rss :
                          /\ view.sources[j].rss[n].title = row.title
                          /\ view.sources[j].rss[n].published_at = row.published_at

C2_FailedQueryFailsRefresh ==
    \A c \in DOMAIN calls :
        calls[c].raised =>
            /\ calls[c].ret # "true"
            /\ cache.update_time.by # c
            /\ cache.topics.by # c
            /\ cache.sources.by # c

\* Thread t is inside refresh_cache, between its entry and its return.
Rebuilding(t) ==
    pc[t] \in {"rc_exists", "rc_load", "rc_query", "rc_fallback", "rc_order",
               "rc_lock", "rc_write", "rc_unlock"}

\* C3: at most one execution of refresh_cache is rebuilding at any time.
C3_AtMostOneRebuild ==
    Cardinality({ t \in Threads : Rebuilding(t) }) <= 1

\* A crawl that was accepted and has not finished.
InFlight(i) == crawls[i] # "finished"

\* C4: at most one crawl is in flight at any time (a trigger_crawl call
\* made before an accepted crawl has finished starts no second one).
C4_SingleFlightCrawl ==
    Cardinality({ i \in DOMAIN crawls : InFlight(i) }) <= 1

\* C5: the update_time, topics/sources and cache_time of a reader's
\* response were all set by one and the same refresh_cache call.
C5_ReaderSeesOneRefresh ==
    pc["main"] = "rd_send" =>
        LET fields == ReaderFields(request.kind)
        IN  \A i, j \in DOMAIN fields :
                request.resp[fields[i]].by = request.resp[fields[j]].by

\* A /api/status response is complete, built from what the second or a
\* later refresh installed, while the watcher's refresh waits for the lock.
C5_Witness ==
    /\ pc["main"] = "rd_send"
    /\ request.kind = "status"
    /\ request.resp.update_time.by >= 2
    /\ request.resp.cache_time.by >= 2
    /\ pc["watcher"] = "rc_lock"


\* The modification times from which the snapshot now in the cache was
\* built: those recorded by the call that assigned cache["topics"], and
\* zero for the cache as created at lines 58-66.
ServedKey ==
    IF cache.topics.by = 0 THEN [db |-> 0, freq |-> 0]
    ELSE calls[cache.topics.by].key

\* The database or the configuration is newer than what the served
\* snapshot was built from.
Stale ==
    \/ db.news.state # "absent" /\ db_mtime > ServedKey.db
    \/ freq_file.mtime > ServedKey.freq

\* C11: whenever the watcher is about to run a pass of its loop and the
\* database or the configuration is newer than the key of the served
\* snapshot, the pass calls refresh_cache, also after a refresh that failed.
C11_StalePassRefreshes ==
    (pc["watcher"] = "watch_check" /\ Stale) => NeedRefresh

\* The call c of refresh_cache wrote no cache field: it assigned none and no
\* field of the cache carries its mark.
WroteNothing(c) ==
    /\ calls[c].installed = 0
    /\ \A f \in DOMAIN cache : cache[f].by # c

\* C12: a call of refresh_cache that returned True assigned all five cache
\* fields during the call, and a call that returned False assigned none of
\* them, so the cache is as it would be without that call.
C12_TrueIffInstalled ==
    \A c \in DOMAIN calls :
        /\ calls[c].ret = "true" => calls[c].installed = Len(CacheFields)
        /\ calls[c].ret = "false" => WroteNothing(c)

\* A refresh returned False over a cache an earlier refresh had filled, and
\* another refresh returned True.
C12_Witness ==
    \E c, d \in DOMAIN calls :
        /\ calls[c].ret = "false"
        /\ calls[d].ret = "true"
        /\ d < c
        /\ cache.topics.by = d

\* The steps of refresh_cache before its with block (lines 713-722):
\* get_data_from_db, the fallback and apply_topics_order.
BuildSteps == {"rc_exists", "rc_load", "rc_query", "rc_fallback", "rc_order"}

\* C13: a thread that is reading the stores, parsing the configuration,
\* classifying, aggregating or ordering inside refresh_cache does not hold
\* cache_lock; it holds the lock only while it assigns the cache fields.
C13_NoLockWhileBuilding ==
    \A t \in Threads :
        pc[t] \in BuildSteps => cache_lock # t

\* The watcher queries the database while a reader on the main thread holds
\* the lock, after the main thread has already been through a refresh.
C13_Witness ==
    /\ pc["watcher"] = "rc_query"
    /\ cache_lock = "main"
    /\ \E c \in DOMAIN calls : calls[c].ret = "true"

\* C14: a reader does not hold cache_lock while it serialises and sends
\* its response.
C14_ReaderSendsUnlocked ==
    ~(pc["main"] = "rd_send" /\ cache_lock = "main")

\* The i-th crawl has run its finally clause: the guard is released, a new
\* trigger_crawl is accepted, and last_run is the time this crawl ended.
GuardReleasedBy(i) ==
    /\ crawls[i] = "finished"
    /\ CrawlAccepted
    /\ crawl_status.last_run = i

\* C15: every crawl trigger_crawl accepted eventually sets running back to
\* False and records last_run, whatever the outcome of the subprocess, and
\* a new trigger_crawl is accepted then.
C15_CrawlReleasesGuard ==
    \A i \in 1..MaxCrawls :
        (i \in DOMAIN crawls /\ crawls[i] = "spawned")
            ~> (i \in DOMAIN crawls /\ GuardReleasedBy(i))

\* The second crawl was accepted after the first had timed out and released
\* the guard, and has released it again after a failure of its own.
C15_Witness ==
    /\ Len(crawls) = 2
    /\ GuardReleasedBy(2)
    /\ crawls[1] = "finished"
    /\ crawl_status.message \in {"timeout", "failed", "error"}

\* C16: a `!` term of one block is local to its group: when no global
\* filter literal occurs in the title, every group whose own filter,
\* required and normal rules the title satisfies has its result in what
\* find_matched_topics returns, whatever the `!` terms of other groups.
C16_GroupFilterIsLocal ==
    (mpc = "matched" /\ title # <<>>
        /\ ~GlobalFilterHit(global_filters, Lower(title)))
    => \A i \in DOMAIN word_groups :
          LET own == GroupResult(word_groups[i], Lower(title))
          IN  own # <<>> => \E j \in DOMAIN matched : matched[j] = own[1]

\* The lines of a block that declare a normal or a required term, in source
\* order.
TermLines(block) ==
    SelectSeq(StripNonEmpty(Split(block, <<"\n">>)),
              LAMBDA l : ~(StartsWith(l, <<"#">>) \/ StartsWith(l, <<"@">>)
                              \/ StartsWith(l, <<"!">>)))

\* The alias of the first term of the block in source order, its literal
\* when it has no alias.
FirstTermKey(block) ==
    LET line == TermLines(block)[1]
    IN  Display(ParseWordFallback(IF StartsWith(line, <<"+">>)
                                  THEN DropFirst(line, 1) ELSE line))

\* The file is one block without a `#` name line that declares some term.
OneUnnamedBlock ==
    /\ content \in ParseBlocks
    /\ TermLines(content) # <<>>
    /\ \A l \in Range(StripNonEmpty(Split(content, <<"\n">>))) : ~StartsWith(l, <<"#">>)

\* C17: the group_key load_frequency_words_extended gives a block without a
\* `#` name line is the alias of the block's first term in source order, or
\* that term's literal when it has no alias.
C17_KeyIsFirstTerm ==
    (mpc \in {"loaded", "matched"} /\ OneUnnamedBlock)
    => /\ Len(word_groups) = 1
       /\ word_groups[1].group_key = FirstTermKey(content)

\* The order get_data_from_db gave the source of bucket s before it deleted
\* the key: the platform's place in the registry (line 587), or the feed's
\* place plus 1000 (line 670); only a feed's bucket has a category.
ConfiguredOrder(s) ==
    IF "category" \in DOMAIN s
    THEN OrderOf(registry.rss_feeds, s.id) + RssOrderOffset
    ELSE OrderOf(registry.platforms, s.id)

\* C18: the source buckets get_data_from_db returns are in ascending
\* configured order, and of two buckets with equal order the one with more
\* items comes first.
C18_SourcesByOrderThenCount ==
    (apc = "done" /\ view.ok)
    => \A i, j \in DOMAIN view.sources :
          i < j =>
            \/ ConfiguredOrder(view.sources[i]) < ConfiguredOrder(view.sources[j])
            \/ /\ ConfiguredOrder(view.sources[i]) = ConfiguredOrder(view.sources[j])
               /\ view.sources[i].count >= view.sources[j].count

\* The source of bucket s has an entry in the registry: a platform among
\* platforms, a feed among rss_feeds.
Registered(s) ==
    IF "category" \in DOMAIN s
    THEN LastIndexOf(registry.rss_feeds, s.id) # 0
    ELSE LastIndexOf(registry.platforms, s.id) # 0

\* C19: a platform or feed without a registry entry that has an item
\* matching a topic has a source bucket, and every bucket of a source
\* without an entry comes after every bucket of a source with one.
C19_UnregisteredSourceLast ==
    AggregationDone =>
        /\ \A k \in DOMAIN RowsRead(db.news) :
              LET row == RowsRead(db.news)[k]
              IN  (LastIndexOf(registry.platforms, row.platform_id) = 0
                      /\ MatchesOf(row) # <<>>)
                  => \E j \in DOMAIN view.sources : view.sources[j].id = row.platform_id
        /\ \A k \in DOMAIN RowsRead(db.rss) :
              LET row == RowsRead(db.rss)[k]
              IN  (LastIndexOf(registry.rss_feeds, row.feed_id) = 0
                      /\ MatchesOf(row) # <<>>)
                  => \E j \in DOMAIN view.sources : view.sources[j].id = row.feed_id
        /\ \A i, j \in DOMAIN view.sources :
              (Registered(view.sources[i]) /\ ~Registered(view.sources[j])) => i < j

\* C20: in the view parse_index_html returns, as in the one
\* get_data_from_db returns, the count of every topic bucket and of every
\* source bucket is the number of items in the bucket's arrays.
C20_CountIsArrayLength ==
    (apc = "done" /\ view.ok)
    => /\ \A i \in DOMAIN view.topics :
             view.topics[i].count =
                 Len(view.topics[i].news)
                     + (IF "rss" \in DOMAIN view.topics[i]
                        THEN Len(view.topics[i].rss) ELSE 0)
       /\ \A j \in DOMAIN view.sources :
             view.sources[j].count =
                 Len(view.sources[j].news)
                     + (IF "rss" \in DOMAIN view.sources[j]
                        THEN Len(view.sources[j].rss) ELSE 0)

\* C21: the topics get_data_from_db returns are one bucket per word group,
\* in configuration order, also for a group that matched nothing, and a
\* news item is listed (by title) in the bucket of every group whose rules
\* its title satisfied.
C21_OneBucketPerGroup ==
    AggregationDone =>
        /\ Len(view.topics) = Len(freq.word_groups)
        /\ \A g \in DOMAIN freq.word_groups :
              /\ view.topics[g].name = freq.word_groups[g].group_key
              /\ \A k \in DOMAIN RowsRead(db.news) :
                    LET row == RowsRead(db.news)[k]
                    IN  (/\ EnabledOf(registry.platforms, row.platform_id)
                         /\ MatchesOf(row) # <<>>
                         /\ GroupResult(freq.word_groups[g], Lower(row.title)) # <<>>)
                        => row.title \in Titles(view.topics[g].news)

\* The saved order names the bucket.
NamedInOrder(topic) ==
    \E i \in DOMAIN registry.topics_order : registry.topics_order[i].name = topic.name

\* The place of the first saved entry with the bucket's name.
PlaceInOrder(topic) ==
    CHOOSE i \in DOMAIN registry.topics_order :
        /\ registry.topics_order[i].name = topic.name
        /\ \A j \in DOMAIN registry.topics_order :
              registry.topics_order[j].name = topic.name => i <= j

\* C22: with a saved order, apply_topics_order returns every input bucket
\* exactly once: the buckets the order names first, in the order's sequence
\* and with its enabled flag, then the others in configuration order and
\* enabled.
C22_OrderIsPermutation ==
    (apc = "done" /\ registry.topics_order # <<>>)
    => LET in == TopicsOf(freq)
           out == view.topics
       IN  /\ Len(out) = Len(in)
           /\ \A i \in DOMAIN in :
                 Cardinality({ j \in DOMAIN out : out[j].id = in[i].id }) = 1
           /\ \A j \in DOMAIN out :
                 /\ "enabled" \in DOMAIN out[j]
                 /\ ~NamedInOrder(out[j]) => out[j].enabled
                 /\ NamedInOrder(out[j]) =>
                       \E i \in DOMAIN registry.topics_order :
                           /\ registry.topics_order[i].name = out[j].name
                           /\ registry.topics_order[i].enabled = out[j].enabled
           /\ \A j, k \in DOMAIN out :
                 j < k =>
                   \/ NamedInOrder(out[j]) /\ ~NamedInOrder(out[k])
                   \/ /\ NamedInOrder(out[j]) /\ NamedInOrder(out[k])
                      /\ PlaceInOrder(out[j]) <= PlaceInOrder(out[k])
                   \/ /\ ~NamedInOrder(out[j]) /\ ~NamedInOrder(out[k])
                      /\ out[j].id < out[k].id

\* The items of a source bucket, news and rss.
BucketItems(s) == s.news \o s.rss

\* The title matches a topic of the configuration the pass used.
TitleMatches(t) ==
    FindMatchedTopics(t, freq.word_groups, freq.filter_words, freq.global_filters) # <<>>

\* C23: every item of a source bucket of get_data_from_db has a title the
\* classifier matched to some topic, and a bucket exists only for a source
\* with such an item: a source whose items are all unmatched has none.
C23_SourceItemsMatched ==
    AggregationDone =>
        \A j \in DOMAIN view.sources :
            /\ BucketItems(view.sources[j]) # <<>>
            /\ \A k \in DOMAIN BucketItems(view.sources[j]) :
                  /\ BucketItems(view.sources[j])[k].matchedTopics # <<>>
                  /\ TitleMatches(BucketItems(view.sources[j])[k].title)
            /\ \/ \E k \in DOMAIN RowsRead(db.news) :
                      /\ RowsRead(db.news)[k].platform_id = view.sources[j].id
                      /\ MatchesOf(RowsRead(db.news)[k]) # <<>>
               \/ \E k \in DOMAIN RowsRead(db.rss) :
                      /\ RowsRead(db.rss)[k].feed_id = view.sources[j].id
                      /\ MatchesOf(RowsRead(db.rss)[k]) # <<>>

\* A pass read a matched row of one enabled platform and an unmatched row
\* of another: the view has the bucket of the first alone.
C23_Witness ==
    /\ AggregationDone
    /\ Len(view.sources) = 1
    /\ \E k \in DOMAIN RowsRead(db.news) :
          /\ ~TitleMatches(RowsRead(db.news)[k].title)
          /\ EnabledOf(registry.platforms, RowsRead(db.news)[k].platform_id)
          /\ RowsRead(db.news)[k].platform_id # view.sources[1].id

\* The section active for block i of layout d: that of the last header among
\* blocks 1..i, WORD_GROUPS when there is none.
RECURSIVE ActiveSection(_, _)
ActiveSection(d, i) ==
    IF i = 0 THEN SectionWordGroups
    ELSE IF d[i].header # NoHeader THEN d[i].header
    ELSE ActiveSection(d, i - 1)

\* The lines of the GLOBAL_FILTER blocks among blocks 1..i that do not start
\* with a directive prefix, in source order.
RECURSIVE LayoutGlobalFilters(_, _)
LayoutGlobalFilters(d, i) ==
    IF i = 0 THEN <<>>
    ELSE LayoutGlobalFilters(d, i - 1) \o
         (IF ActiveSection(d, i) = SectionGlobalFilter
          THEN SelectSeq(d[i].lines, LAMBDA l : Head(l) \notin {"!", "+", "@", "#"})
          ELSE <<>>)

\* The lines of each WORD_GROUPS block among blocks 1..i.
RECURSIVE LayoutWordBlocks(_, _)
LayoutWordBlocks(d, i) ==
    IF i = 0 THEN <<>>
    ELSE LayoutWordBlocks(d, i - 1) \o
         (IF ActiveSection(d, i) = SectionWordGroups THEN <<d[i].lines>> ELSE <<>>)

\* The groups of the WORD_GROUPS blocks of d, each block parsed on its own
\* by parse(lines).
LayoutGroups(d, parse(_)) ==
    Flatten([k \in DOMAIN LayoutWordBlocks(d, Len(d)) |->
                parse(LayoutWordBlocks(d, Len(d))[k])])

HelperParseLines(lines) == HelperGroup(HelperLines(EmptyBlock, lines))

\* C24: parsing starts in WORD_GROUPS; a block headed [GLOBAL_FILTER] or
\* [WORD_GROUPS] sets the section for itself and the blocks after it up to
\* the next header; a GLOBAL_FILTER block gives no word group, and its lines
\* without a directive prefix are the global filters, in source order.
C24_SectionsSwitchByHeader ==
    \A d \in SectionLayouts :
        SectionTexts[d] = content =>
            /\ mpc \in {"loaded", "matched"} =>
                  /\ global_filters = LayoutGlobalFilters(d, Len(d))
                  /\ word_groups = LayoutGroups(d, HelperParseLines)
            /\ svc_pc = "done" =>
                  svc_groups = LayoutGroups(d, ServiceParseWordBlock)

\* Both parsers have read a text whose GLOBAL_FILTER section gave two
\* literals and whose later [WORD_GROUPS] block gave a group.
C24_Witness ==
    /\ mpc = "loaded"
    /\ svc_pc = "done"
    /\ StartsWith(content, HeaderGlobalFilter)
    /\ global_filters = <<LineJapan, LineKorea>>
    /\ Len(word_groups) = 1
    /\ Len(svc_groups) = 1

\* The ids of a list in the order of their first entries.
RECURSIVE FirstIds(_, _)
FirstIds(entries, acc) ==
    IF entries = <<>> THEN acc
    ELSE FirstIds(Tail(entries),
                  IF \E k \in DOMAIN acc : acc[k] = Head(entries).id
                  THEN acc ELSE Append(acc, Head(entries).id))

\* The first entry of an id in a list that has one.
FirstEntry(entries, id) ==
    entries[CHOOSE i \in DOMAIN entries :
               /\ entries[i].id = id
               /\ \A j \in DOMAIN entries : entries[j].id = id => i <= j]

\* What get_combined_config was given, and what it returned.
UserGiven == gc.user_settings["platforms"]

MergeDone == gc.pc = "done"

\* The parts of C25 that do not depend on the enabled state of an appended
\* config entry: names, the user's order and states, position, no id twice.
MergeKeepsUserOrder ==
    /\ \A k \in DOMAIN gc.platforms :
          IdsOf(config_yaml) # {} /\ gc.platforms[k].id \in IdsOf(config_yaml) =>
              gc.platforms[k].name =
                  NameOrId(config_yaml[LastIndexOf(config_yaml, gc.platforms[k].id)])
    /\ [k \in DOMAIN gc.platforms |-> gc.platforms[k].id] =
          FirstIds(UserGiven, <<>>) \o
          FirstIds(SelectSeq(config_yaml, LAMBDA cp : cp.id \notin IdsOf(UserGiven)), <<>>)
    /\ \A k \in DOMAIN gc.platforms :
          gc.platforms[k].id \in IdsOf(UserGiven) =>
              gc.platforms[k].enabled =
                  (IF FirstEntry(UserGiven, gc.platforms[k].id).enabled = "false"
                   THEN "false" ELSE "true")
    /\ \A j, k \in DOMAIN gc.platforms :
          gc.platforms[j].id = gc.platforms[k].id => j = k

ReadOlderInputs(a, b) ==
    /\ calls[a].queried
    /\ calls[b].queried
    /\ calls[a].key.db <= calls[b].key.db
    /\ calls[a].key.freq <= calls[b].key.freq
    /\ calls[a].key # calls[b].key

\* C26: the snapshot in the cache is never that of a refresh that read
\* older inputs than a refresh whose result was installed before it: a
\* result built from older inputs is not installed after a newer one.
C26_NoOlderInstallAfterNewer ==
    \A a, b \in DOMAIN calls :
        (/\ cache.topics.by = a
         /\ calls[a].installed = Len(CacheFields)
         /\ calls[b].installed = Len(CacheFields))
        => ~ReadOlderInputs(a, b)

\* The three values load_frequency_config would return from one parse of
\* this text.
OneParseOf(text) ==
    [k \in DOMAIN NoParse |-> LoadFrequencyWordsExtended(text)[k]]

\* C27: the word_groups, filter_words and global_filters that a call of
\* load_frequency_config returned are those of one parse of one version of
\* the configuration text.
C27_ConfigFromOneParse ==
    \A t \in Threads :
        lf[t].pc = "lf_done" => \E text \in LoadTexts : lf[t].got = OneParseOf(text)

\* The saves that wrote key k, by position in the history.
SavesOf(k) == { i \in DOMAIN saves : k \in DOMAIN saves[i] }

\* The value the last completed save_user_settings call gave to key k.
LastSaved(k) ==
    saves[CHOOSE i \in SavesOf(k) : \A j \in SavesOf(k) : j <= i][k]

\* C28: a key that a save_user_settings call wrote (and returned True)
\* keeps the saved value in user_settings.json until a later
\* save_user_settings call writes that key, whatever get_combined_config
\* does meanwhile.
C28_SavedKeysDurable ==
    \A k \in {"platforms", "topics_order", "ui_tabs"} :
        SavesOf(k) # {} =>
            /\ k \in DOMAIN user_settings_file
            /\ user_settings_file[k] = LastSaved(k)

\* The terms of the groups the helper produced, and its filter words.
HelperTerms ==
    UNION { Range(word_groups[g].required) \cup Range(word_groups[g].normal)
            \cup Range(word_groups[g].filter) : g \in DOMAIN word_groups }
    \cup Range(filter_words)

\* The terms of the groups ParserService produced.
ServiceTerms ==
    UNION { Range(svc_groups[g].required) \cup Range(svc_groups[g].normal)
            \cup Range(svc_groups[g].filter_words) : g \in DOMAIN svc_groups }

\* C29: every term the word-group parsers produce, required, normal or
\* filter, has a non-empty literal or pattern; none matches every title.
C29_NoEmptyTerm ==
    /\ mpc \in {"loaded", "matched"} =>
          \A term \in HelperTerms :
              /\ term.word # NoText
              /\ ~WordMatches(term, NoText)
    /\ svc_pc = "done" => \A w \in ServiceTerms : w # NoText

\* The word groups of the configuration file as it is now.
CurrentFreq ==
    LET parsed == LoadFrequencyWordsExtended(freq_file.content)
    IN  [word_groups |-> parsed.groups, filter_words |-> parsed.filter_words,
         global_filters |-> parsed.global_filters]

\* The served topics and sources are those of an aggregation of the
\* database, the configuration and the saved settings as they are now.
Fresh ==
    LET result == GetDataFromDb(db, CurrentFreq, registry)
    IN  /\ cache.topics.value = ApplyTopicsOrder(result.topics, registry.topics_order)
        /\ cache.sources.value = result.sources

\* No refresh_cache call has failed or met an exception so far.
RefreshesSucceed ==
    \A c \in DOMAIN calls : calls[c].ret # "false" /\ ~calls[c].raised

\* Nothing is in progress and the watcher's pass finds nothing changed.
Settled ==
    /\ pc["main"] = "idle"
    /\ pc["watcher"] = "watch_check"
    /\ ~NeedRefresh
    /\ db.news.state = "ok"

\* C30: when no refresh fails, a server that has settled (no request in
\* progress, the watcher finds no input changed) eventually serves the
\* aggregation of the current inputs.
C30_QuiescentConvergence ==
    ([]RefreshesSucceed) => (Settled ~> Fresh)

=============================================================================
